---- MODULE Spec2Model ----
(***************************************************************************)
(* State-machine model of the memory-mapped I/O subsystem of soc-rs:       *)
(* Bus, Plic, Uart, Memory and the blocking Channel.                       *)
(*                                                                         *)
(* Representation notes.                                                   *)
(*  - A 32-bit address is the pair <<hi, lo>> of its 16-bit halves (the    *)
(*    model checker's integers are 32-bit signed, 0x80000000 does not      *)
(*    fit); ranges are compared lexicographically and offsets inside a     *)
(*    device window are ordinary integers.                                 *)
(*  - A u32 value is a 32-bit two's complement integer (see Words and      *)
(*    bitmaps): values from 0x80000000 up appear as v - 2^32.  The u64 of  *)
(*    a register access is written the same way, as its low 32 bits.       *)
(*  - An array of u32 words used as a bitmap ([u32; 32]) is the set of the *)
(*    positions of its set bits, position = 32 * word index + bit offset.  *)
(*  - [u32; 1023] priorities is a function defined on the indices holding  *)
(*    a nonzero value (all other entries are 0).                           *)
(*  - [bool; 1024] claimed is the set of the indices holding true.         *)
(***************************************************************************)
EXTENDS Integers, Sequences, FiniteSets, TLC

VARIABLES
    plic,         \* Bus.plic: the Plic fields
    uart,         \* Bus.uart: the Uart registers
    rxq,          \* buffer of the channel external -> Uart.receiver (also fed by loop_sender)
    txq,          \* buffer of the channel Uart.sender -> external
    mem,          \* Memory: the bytes of the RAM that differ from 0
    ysyx,         \* Bus.ysyx: frame buffer, key queue, and the command channel's buffer
    count,        \* Bus.count
    build,        \* whether the build checks raw-pointer alignment (debug assertions)
    panicked,     \* the calling thread has panicked
    op,           \* the last operation performed and its inputs
    ret,          \* what it returned
    cpu,          \* the PLIC context whose registers the calling hart accesses
    pc,           \* position in a scripted call sequence
    args,         \* the inputs a scripted call sequence was drawn with
    rets,         \* the values its calls have returned so far
    touched,      \* history: since the last check_interrupt, an irq changed a pending
                  \* bit or the claim register was read
    pendChanged,  \* history: the pending bitmap changed since the last check_interrupt
    lastLevel,    \* history: the level of the last Some(level) reported (FALSE at start)
    chan          \* thread-level channel model: mutex, each thread's position in
                  \* send or recv, and the history of values sent and received

vars == <<plic, uart, rxq, txq, mem, ysyx, count, build, panicked, op, ret, cpu, pc, args,
          rets, touched, pendChanged, lastLevel, chan>>

(***************************************************************************)
(* Results of operations                                                   *)
(***************************************************************************)
Ok(v) == [kind |-> "Ok", val |-> v]
BusException == [kind |-> "Err", val |-> 0]
Panic == [kind |-> "Panic", val |-> 0]
None == [kind |-> "None", val |-> FALSE]
\* the Irq collector a Device::clk call was given, as the call leaves it
Collected(evs) == [kind |-> "Irq", val |-> evs]
Unit == [kind |-> "Unit", val |-> 0]
Some(b) == [kind |-> "Some", val |-> b]

(***************************************************************************)
(* 32-bit addresses as <<hi16, lo16>>                                      *)
(***************************************************************************)
Half == 2 ^ 16

AddrAdd(a, n) == LET t == a[2] + n IN <<a[1] + (t \div Half), t % Half>>
AddrLe(a, b) == a[1] < b[1] \/ (a[1] = b[1] /\ a[2] <= b[2])
InRange(a, lo, hi) == AddrLe(lo, a) /\ AddrLe(a, hi)
\* a - base, for a inside a window that starts at base
Offset(a, base) == (a[1] - base[1]) * Half + (a[2] - base[2])

(***************************************************************************)
(* Words and bitmaps                                                       *)
(* A u32 value v (a register word, the data of an access taken `as u32`)   *)
(* is the integer v when v < 2^31 and the integer v - 2^32 when v >= 2^31: *)
(* the value read as a 32-bit two's complement number, which is what the   *)
(* model checker's integers can hold.  0x80000000 is MinI32, 0xFFFFFFFF is *)
(* -1.  Unsigned order is ULt.                                             *)
(***************************************************************************)
MinI32 == (-2147483647) - 1

\* 1u32 << n, for n in 0 .. 31
Pow2(n) == IF n = 31 THEN MinI32 ELSE 2 ^ n

\* a < b on u32 values
ULt(a, b) == IF (a < 0) = (b < 0) THEN a < b ELSE b < 0

\* bit o (0 .. 31) of the u32 value data
U32Bit(data, o) == IF o = 31 THEN (IF data < 0 THEN 1 ELSE 0) ELSE (data \div (2 ^ o)) % 2

\* the bit positions (32 * index + offset) set in word `index` when it holds `data`
BitsOf(data, index) ==
    { 32 * index + b : b \in { o \in 0 .. 31 : U32Bit(data, o) = 1 } }

\* the positions of bitmap `bits` lying in word `index`
WordBits(bits, index) == { b \in bits : b \div 32 = index }

\* the sum of the bits o .. 31 of word `index`; the terms are added from bit 31 down,
\* so that every partial sum is a u32 value
RECURSIVE WordValFrom(_, _, _)
WordValFrom(bits, index, o) ==
    IF o > 31 THEN 0
    ELSE (IF (32 * index + o) \in bits THEN Pow2(o) ELSE 0)
         + WordValFrom(bits, index, o + 1)

\* the value of word `index` of bitmap `bits`
WordVal(bits, index) == WordValFrom(bits, index, 0)

\* bitmap `bits` with word `index` overwritten by `data`
SetWord(bits, index, data) == (bits \ WordBits(bits, index)) \cup BitsOf(data, index)

\* sparse array with default 0
Get(f, i) == IF i \in DOMAIN f THEN f[i] ELSE 0
Put(f, i, v) ==
    [ j \in (IF v = 0 THEN DOMAIN f \ {i} ELSE DOMAIN f \cup {i}) |->
        IF j = i THEN v ELSE f[j] ]

(***************************************************************************)
(* PLIC  (src/src/devices/plic.rs)                                         *)
(***************************************************************************)
PLIC_START == <<3072, 0>>                                   \* 0x0C000000
PLIC_END == AddrAdd(PLIC_START, 67108863)                   \* + 0x3FFFFFF
PLIC_SOURCE_PRIORITY_START == AddrAdd(PLIC_START, 4)
PLIC_SOURCE_PRIORITY_END == AddrAdd(PLIC_START, 4095)       \* + 0x000FFF
PLIC_PENDING_START == AddrAdd(PLIC_START, 4096)             \* + 0x001000
PLIC_PENDING_END == AddrAdd(PLIC_START, 4223)               \* + 0x00107F
PLIC_SOURCE_ENABLE_START == AddrAdd(PLIC_START, 8192)       \* + 0x002000
PLIC_SOURCE_ENABLE_END == AddrAdd(PLIC_START, 2039807)      \* + 0x1F1FFF
PLIC_THRESHOLD_CLIAM_COMPLETE_START == AddrAdd(PLIC_START, 2097152)  \* + 0x200000
PLIC_THRESHOLD_CLIAM_COMPLETE_END == AddrAdd(PLIC_START, 67108863)   \* + 0x3FFFFFF

HART_COUNT == 1
INTERRUPT_COUNT == 64
PRIORITIES_LEN == 1023
PENDING_LEN == 32
ENABLE_LEN == 32
CLAIMED_LEN == 1024

\* the contexts the per-context tables hold: [Pair<_>; HART_COUNT * 2],
\* entry context / 2, half context % 2
Contexts == 0 .. (HART_COUNT * 2 * 2 - 1)

Plic_new ==
    [ priorities |-> << >>,
      pending    |-> {},
      enable     |-> [c \in Contexts |-> {}],
      threshold  |-> [c \in Contexts |-> 0],
      claimed    |-> [c \in Contexts |-> {}],
      update     |-> FALSE ]

\* Plic::irq raising update on every call
Plic_irq_always(p, irq, enable) ==
    LET index == irq \div 32
        offset == irq % 32
        bit == 32 * index + offset
        pending == IF enable THEN p.pending \cup {bit} ELSE p.pending \ {bit}
    IN [p EXCEPT !.pending = pending, !.update = TRUE]

\* Plic::irq
Plic_irq(p, irq, enable) ==
    LET index == irq \div 32
        offset == irq % 32
        bit == 32 * index + offset
        pending == IF enable THEN p.pending \cup {bit} ELSE p.pending \ {bit}
    IN [p EXCEPT !.pending = pending,
                 !.update = IF pending # p.pending THEN TRUE ELSE p.update]

\* a faulty variant of the loop condition: the threshold is not compared
highest_irq_hit_nothreshold(p, context, i, priority) ==
    LET index == i \div 32
        offset == i % 32
    IN /\ (32 * index + offset) \in p.enable[context]
       /\ (32 * index + offset) \in p.pending
       /\ index \notin p.claimed[context]
       /\ ULt(priority, Get(p.priorities, i))

highest_irq_hit(p, context, i, priority) ==
    LET index == i \div 32
        offset == i % 32
    IN /\ (32 * index + offset) \in p.enable[context]
       /\ (32 * index + offset) \in p.pending
       /\ index \notin p.claimed[context]
       /\ ULt(p.threshold[context], Get(p.priorities, i))
       /\ ULt(priority, Get(p.priorities, i))

\* Plic::highest_irq: scan[i] is <<irq, priority>> after the loop body has run for
\* the sources 1..i
highest_irq(p, context) ==
    LET scan[i \in 0 .. (INTERRUPT_COUNT - 1)] ==
            IF i = 0 THEN <<0, 0>>
            ELSE LET prev == scan[i - 1]
                 IN IF highest_irq_hit(p, context, i, prev[2])
                    THEN <<i, Get(p.priorities, i)>>
                    ELSE prev
    IN scan[INTERRUPT_COUNT - 1][1]

\* Plic::check_interrupt: the state after and the value returned
check_interrupt(p) ==
    IF p.update
    THEN [plic |-> [p EXCEPT !.update = FALSE], res |-> Some(highest_irq(p, 0) # 0)]
    ELSE [plic |-> p, res |-> None]

\* Plic::complete (irq < CLAIMED_LEN; the caller models the index panic)
complete(p, context, irq) ==
    [p EXCEPT !.claimed[context] = @ \ {irq}]

\* Plic::claim: the state after and the source returned
claim(p, context) ==
    LET irq == highest_irq(p, context)
        index == irq \div 8
        offset == irq % 8
    IN [plic |-> [p EXCEPT !.pending = @ \ {32 * index + offset},
                           !.claimed[context] = @ \cup {irq}],
        res |-> irq]

\* <Plic as Device>::read: the state after and the result
Plic_read(p, address, size) ==
    IF size # 4 THEN [plic |-> p, res |-> BusException]
    ELSE IF InRange(address, PLIC_SOURCE_PRIORITY_START, PLIC_SOURCE_PRIORITY_END) THEN
        LET i == Offset(address, PLIC_SOURCE_PRIORITY_START)
        IN IF i >= PRIORITIES_LEN THEN [plic |-> p, res |-> Panic]
           ELSE [plic |-> p, res |-> Ok(Get(p.priorities, i))]
    ELSE IF InRange(address, PLIC_PENDING_START, PLIC_PENDING_END) THEN
        LET i == Offset(address, PLIC_PENDING_START)
        IN IF i >= PENDING_LEN THEN [plic |-> p, res |-> Panic]
           ELSE [plic |-> p, res |-> Ok(WordVal(p.pending, i))]
    ELSE IF InRange(address, PLIC_SOURCE_ENABLE_START, PLIC_SOURCE_ENABLE_END) THEN
        LET offset == Offset(address, PLIC_SOURCE_ENABLE_START)
            context == offset \div 128
            item == offset % 128
        IN IF context \div 2 >= HART_COUNT * 2 \/ item >= ENABLE_LEN
           THEN [plic |-> p, res |-> Panic]
           ELSE [plic |-> p, res |-> Ok(WordVal(p.enable[context], item))]
    ELSE IF InRange(address, PLIC_THRESHOLD_CLIAM_COMPLETE_START,
                    PLIC_THRESHOLD_CLIAM_COMPLETE_END) THEN
        LET offset == Offset(address, PLIC_THRESHOLD_CLIAM_COMPLETE_START)
            context == offset \div 4096
            item == offset % 4096
        IN IF item = 0 THEN
               IF context \div 2 >= HART_COUNT * 2 THEN [plic |-> p, res |-> Panic]
               ELSE [plic |-> p, res |-> Ok(p.threshold[context])]
           ELSE IF item = 1 THEN
               IF context \div 2 >= HART_COUNT * 2 THEN [plic |-> p, res |-> Panic]
               ELSE LET c == claim(p, context)
                    IN [plic |-> [c.plic EXCEPT !.update = TRUE], res |-> Ok(c.res)]
           ELSE [plic |-> p, res |-> BusException]
    ELSE [plic |-> p, res |-> BusException]

\* <Plic as Device>::write: the state after and the result
Plic_write(p, address, size, data) ==
    IF size # 4 THEN [plic |-> p, res |-> BusException]
    ELSE IF InRange(address, PLIC_SOURCE_PRIORITY_START, PLIC_SOURCE_PRIORITY_END) THEN
        LET i == Offset(address, PLIC_SOURCE_PRIORITY_START)
        IN IF i >= PRIORITIES_LEN THEN [plic |-> p, res |-> Panic]
           ELSE [plic |-> [p EXCEPT !.priorities = Put(@, i, data)], res |-> Ok(0)]
    ELSE IF InRange(address, PLIC_SOURCE_ENABLE_START, PLIC_SOURCE_ENABLE_END) THEN
        LET offset == Offset(address, PLIC_SOURCE_ENABLE_START)
            context == offset \div 128
            item == offset % 128
        IN IF context \div 2 >= HART_COUNT * 2 \/ item >= ENABLE_LEN
           THEN [plic |-> p, res |-> Panic]
           ELSE [plic |-> [p EXCEPT !.enable[context] = SetWord(@, item, data)],
                 res |-> Ok(0)]
    ELSE IF InRange(address, PLIC_THRESHOLD_CLIAM_COMPLETE_START,
                    PLIC_THRESHOLD_CLIAM_COMPLETE_END) THEN
        LET offset == Offset(address, PLIC_THRESHOLD_CLIAM_COMPLETE_START)
            context == offset \div 4096
            item == offset % 4096
        IN IF item = 0 THEN
               IF context \div 2 >= HART_COUNT * 2 THEN [plic |-> p, res |-> Panic]
               ELSE [plic |-> [p EXCEPT !.threshold[context] = data], res |-> Ok(0)]
           ELSE IF item = 1 THEN
               IF context \div 2 >= HART_COUNT * 2 \/ ~ULt(data, CLAIMED_LEN)
               THEN [plic |-> p, res |-> Panic]
               ELSE [plic |-> complete(p, context, data), res |-> Ok(0)]
           ELSE [plic |-> p, res |-> BusException]
    ELSE [plic |-> p, res |-> BusException]

\* register addresses of the PLIC as the code decodes them
PriorityAddr(i) == AddrAdd(PLIC_SOURCE_PRIORITY_START, i)
PendingAddr(i) == AddrAdd(PLIC_PENDING_START, i)
EnableAddr(context, item) == AddrAdd(PLIC_SOURCE_ENABLE_START, 128 * context + item)
ThresholdAddr(context) == AddrAdd(PLIC_THRESHOLD_CLIAM_COMPLETE_START, 4096 * context)
ClaimAddr(context) == AddrAdd(PLIC_THRESHOLD_CLIAM_COMPLETE_START, 4096 * context + 1)

(***************************************************************************)
(* Bytes                                                                   *)
(***************************************************************************)
BitAt(x, b) == (x \div Pow2(b)) % 2

RECURSIVE And8From(_, _, _)
And8From(x, y, b) ==
    IF b > 7 THEN 0
    ELSE Pow2(b) * BitAt(x, b) * BitAt(y, b) + And8From(x, y, b + 1)

\* x & y, x | y and !x on u8
And8(x, y) == And8From(x, y, 0)
Or8(x, y) == x + y - And8(x, y)
Not8(x) == 255 - x
\* data as u8
AsU8(data) == data % 256

(***************************************************************************)
(* Channel buffers as the single-threaded devices use them                 *)
(* (src/src/utils/channel.rs); the thread-level model is further down      *)
(***************************************************************************)
\* what the threads of the thread-level model are, and what they send
MaxSends == 2

Senders == {"s1", "s2"}
Receivers == {"r"}
\* the thread that calls the Bus, which owns the Receiver of the UART's receive channel
Cpus == {"cpu"}
\* the harness thread that holds the Receivers of the DeviceController: uart_receiver
\* (the UART's output channel) and ysyx_receiver (the command channel)
Harness == {"h"}
SendBase(t) == IF t = "s1" THEN 0 ELSE 10

\* the state of channel(): mutex free, buffer empty, no thread inside a call.
\* lock and poisoned are the mutex of the UART's receive channel; out_poisoned and
\* cmd_poisoned say whether the mutex of the UART's output channel and of the command
\* channel is poisoned.
ChanNew ==
    [ lock |-> "free",
      at |-> [t \in Senders \cup Receivers \cup Cpus \cup Harness |-> "idle"],
      sent |-> [t \in Senders |-> 0],
      poisoned |-> FALSE,
      out_poisoned |-> FALSE,
      cmd_poisoned |-> FALSE,
      order |-> << >>,
      got |-> << >> ]

\* a faulty variant of send: push_front
send_front(q, t) == <<t>> \o q
\* Sender::send: push_back
send(q, t) == Append(q, t)
\* Receiver::avaliable
avaliable(q) == q # << >>
\* Receiver::clear
clear(q) == << >>

(***************************************************************************)
(* UART  (src/src/devices/uart.rs)                                         *)
(***************************************************************************)
UART_START == <<4096, 0>>                                   \* 0x10000000
UART_END == AddrAdd(UART_START, 8 - 1)
INTERRUPT_ID == 1

UART_RBR_DLL == UART_START
UART_THR == UART_START
UART_IER_ILM == AddrAdd(UART_START, 1)
UART_IER_RDI == 1
UART_IER_THRI == 2
UART_IIR == AddrAdd(UART_START, 2)
UART_FCR == AddrAdd(UART_START, 2)
UART_IIR_NO_INT == 1
UART_IIR_THRI == 2
UART_IIR_RDI == 4
UART_FCR_ENABLE_FIFO == 1
UART_FCR_CLEAR_RCVR == 2
UART_FCR_CLEAR_XMIT == 4
UART_LCR == AddrAdd(UART_START, 3)
UART_LCR_DLAB == 128
UART_MCR == AddrAdd(UART_START, 4)
UART_MCR_LOOP == 16
UART_LSR == AddrAdd(UART_START, 5)
UART_LSR_DR == 1
UART_LSR_OE == 2
UART_LSR_BI == 16
UART_LSR_THRE == 32
UART_LSR_TEMT == 64
UART_MSR == AddrAdd(UART_START, 6)
UART_MCR_OUT2 == 8
UART_SCR == AddrAdd(UART_START, 7)

\* the register state of Uart::new; the two channels start empty
Uart_new ==
    [ lcr |-> 0, dll |-> 12, dlm |-> 0, ier |-> 0, iir |-> UART_IIR_NO_INT,
      mcr |-> UART_MCR_OUT2, lsr |-> Or8(UART_LSR_TEMT, UART_LSR_TEMT),
      scr |-> 0, fcr |-> 0 ]

\* a faulty variant of the last statement of Uart::clk: nothing is forced
clk_force_ready_skip(u) == u
clk_force_ready(u) ==
    IF And8(u.ier, UART_IER_THRI) = 0
    THEN [u EXCEPT !.lsr = Or8(@, Or8(UART_LSR_TEMT, UART_LSR_THRE))]
    ELSE u

\* Uart::clk, lines 93-95: data ready is set when the receive buffer holds a value
Uart_clk_ready(u, rx) ==
    IF avaliable(rx) THEN [u EXCEPT !.lsr = Or8(@, UART_LSR_DR)] ELSE u

\* whether Uart::clk goes on to call receiver.clear() (line 97)
clk_clears(u) == And8(u.lcr, UART_FCR_CLEAR_RCVR) # 0

\* Uart::clk, lines 97-126, on the registers u1 left by lines 93-95 and the receive
\* queue rx as it is when line 97 is reached
Uart_clk_rest(u1, rx) ==
    LET clr == clk_clears(u1)
        rx2 == IF clr THEN clear(rx) ELSE rx
        u2 == IF clr
              THEN [u1 EXCEPT !.lsr = And8(@, And8(Not8(UART_LSR_DR),
                                                   Not8(UART_FCR_CLEAR_RCVR)))]
              ELSE u1
        u3 == IF And8(u2.lcr, UART_FCR_CLEAR_XMIT) # 0
              THEN [u2 EXCEPT !.lcr = And8(@, Not8(UART_FCR_CLEAR_XMIT)),
                              !.lsr = Or8(@, Or8(UART_LSR_TEMT, UART_LSR_THRE))]
              ELSE u2
        rdi == IF And8(u3.ier, UART_IER_RDI) # 0 /\ And8(u3.lsr, UART_LSR_DR) # 0
               THEN UART_IIR_RDI ELSE 0
        thri == IF And8(u3.ier, UART_IER_THRI) # 0 /\ And8(u3.lsr, UART_LSR_TEMT) # 0
                THEN UART_IIR_THRI ELSE 0
        interrupts == Or8(rdi, thri)
        u4 == IF interrupts # 0
              THEN [u3 EXCEPT !.iir = UART_IIR_NO_INT]
              ELSE [u3 EXCEPT !.iir = interrupts]
        ev == IF interrupts # 0 THEN <<INTERRUPT_ID, FALSE>> ELSE <<INTERRUPT_ID, TRUE>>
    IN [uart |-> clk_force_ready(u4), rx |-> rx2, irqs |-> <<ev>>]

\* <Uart as Device>::clk on registers u and receive queue rx, with no other thread at
\* the channel during it: the registers and the queue after, and the Irq events appended
Uart_clk(u, rx) == Uart_clk_rest(Uart_clk_ready(u, rx), rx)

\* Uart::read, UART_RBR_DLL arm, lines 140-141: overrun is cleared and recv returns the
\* oldest value of the non-empty buffer
rbr_recv(u, rx) ==
    [uart |-> [u EXCEPT !.lsr = And8(@, Not8(UART_LSR_OE))],
     rx |-> Tail(rx), res |-> Ok(Head(rx))]

\* <Uart as Device>::read: registers and receive queue after, and the result
Uart_read(u, rx, address, size) ==
    IF size # 1 THEN [uart |-> u, rx |-> rx, res |-> BusException]
    ELSE IF address = UART_RBR_DLL THEN
        IF And8(u.lcr, UART_LCR_DLAB) # 0 THEN [uart |-> u, rx |-> rx, res |-> Ok(u.dll)]
        ELSE IF And8(u.lsr, UART_LSR_BI) # 0 THEN [uart |-> u, rx |-> rx, res |-> Ok(0)]
        ELSE IF avaliable(rx) THEN rbr_recv(u, rx)
        ELSE [uart |-> u, rx |-> rx, res |-> Ok(0)]
    ELSE IF address = UART_IER_ILM THEN
        [uart |-> u, rx |-> rx,
         res |-> Ok(IF And8(u.lcr, UART_LCR_DLAB) # 0 THEN u.dlm ELSE u.ier)]
    ELSE IF address = UART_IIR THEN [uart |-> u, rx |-> rx, res |-> Ok(u.iir)]
    ELSE IF address = UART_LCR THEN [uart |-> u, rx |-> rx, res |-> Ok(u.lcr)]
    ELSE IF address = UART_MCR THEN [uart |-> u, rx |-> rx, res |-> Ok(u.mcr)]
    ELSE IF address = UART_LSR THEN [uart |-> u, rx |-> rx, res |-> Ok(u.lsr)]
    ELSE IF address = UART_SCR THEN [uart |-> u, rx |-> rx, res |-> Ok(u.scr)]
    ELSE IF address = UART_MSR THEN [uart |-> u, rx |-> rx, res |-> Ok(0)]
    ELSE [uart |-> u, rx |-> rx, res |-> BusException]

\* a faulty variant of the UART_THR arm: loopback is ignored
thr_write_to_output(u, rx, tx, data) ==
    IF And8(u.lcr, UART_LCR_DLAB) # 0
    THEN [uart |-> [u EXCEPT !.dll = AsU8(data)], rx |-> rx, tx |-> tx]
    ELSE IF And8(u.fcr, UART_FCR_ENABLE_FIFO) = 0 /\ avaliable(rx)
    THEN [uart |-> [u EXCEPT !.lsr = Or8(@, UART_LSR_OE)], rx |-> rx, tx |-> tx]
    ELSE [uart |-> [u EXCEPT !.lsr = Or8(@, Or8(UART_LSR_TEMT, UART_LSR_THRE))],
          rx |-> rx, tx |-> send(tx, AsU8(data))]

\* <Uart as Device>::write, UART_THR arm, lines 172-177: the last branch
thr_send(u, rx, tx, data) ==
    LET u1 == [u EXCEPT !.lsr = Or8(@, Or8(UART_LSR_TEMT, UART_LSR_THRE))]
    IN IF And8(u.mcr, UART_MCR_LOOP) # 0
       THEN [uart |-> u1, rx |-> send(rx, AsU8(data)), tx |-> tx]
       ELSE [uart |-> u1, rx |-> rx, tx |-> send(tx, AsU8(data))]

\* <Uart as Device>::write, UART_THR arm, with no other thread at the channel during it
thr_write(u, rx, tx, data) ==
    IF And8(u.lcr, UART_LCR_DLAB) # 0
    THEN [uart |-> [u EXCEPT !.dll = AsU8(data)], rx |-> rx, tx |-> tx]
    ELSE IF And8(u.fcr, UART_FCR_ENABLE_FIFO) = 0 /\ avaliable(rx)
    THEN [uart |-> [u EXCEPT !.lsr = Or8(@, UART_LSR_OE)], rx |-> rx, tx |-> tx]
    ELSE thr_send(u, rx, tx, data)

\* <Uart as Device>::write: registers and both queues after, and the result
Uart_write(u, rx, tx, address, size, data) ==
    IF size # 1 THEN [uart |-> u, rx |-> rx, tx |-> tx, res |-> BusException]
    ELSE IF address = UART_THR THEN
        LET w == thr_write(u, rx, tx, data)
        IN [uart |-> w.uart, rx |-> w.rx, tx |-> w.tx, res |-> Ok(0)]
    ELSE IF address = UART_IER_ILM THEN
        [uart |-> IF And8(u.lcr, UART_LCR_DLAB) # 0
                  THEN [u EXCEPT !.dlm = AsU8(data)]
                  ELSE [u EXCEPT !.ier = And8(AsU8(data), 15)],
         rx |-> rx, tx |-> tx, res |-> Ok(0)]
    ELSE IF address = UART_FCR THEN
        [uart |-> [u EXCEPT !.fcr = AsU8(data)], rx |-> rx, tx |-> tx, res |-> Ok(0)]
    ELSE IF address = UART_LCR THEN
        [uart |-> [u EXCEPT !.lcr = AsU8(data)], rx |-> rx, tx |-> tx, res |-> Ok(0)]
    ELSE IF address = UART_MCR THEN
        [uart |-> [u EXCEPT !.mcr = And8(AsU8(data), 31)],
         rx |-> rx, tx |-> tx, res |-> Ok(0)]
    ELSE IF address = UART_SCR THEN
        [uart |-> [u EXCEPT !.scr = AsU8(data)], rx |-> rx, tx |-> tx, res |-> Ok(0)]
    ELSE [uart |-> u, rx |-> rx, tx |-> tx, res |-> BusException]

(***************************************************************************)
(* Memory  (src/src/devices/memory.rs)                                     *)
(* A value read from or written to RAM is kept as its little-endian bytes  *)
(* (up to 8 bytes do not fit a 32-bit integer).       Written data are    *)
(* below 2^31 in every modelled input, so their bytes 4..7 are 0.          *)
(***************************************************************************)
MEMORY_SIZE == 1024 * 1024 * 1024
MEMORY_START == <<32768, 0>>                                \* 0x80000000
\* a faulty variant of MEMORY_END: the - 1 is missing
MEMORY_END_off_by_one == AddrAdd(MEMORY_START, MEMORY_SIZE)
MEMORY_END == AddrAdd(MEMORY_START, MEMORY_SIZE - 1)

\* byte k (0 = least significant) of data
ByteOf(data, k) == IF k < 4 THEN (data \div (256 ^ k)) % 256 ELSE 0

\* (data as uN).to_le() laid out in memory: the size bytes stored at the address
ToLE(data, size) == [k \in 1 .. size |-> ByteOf(data, k - 1)]

\* whether dereferencing the pointer at byte offset `offset` as a `size`-byte integer
\* is aligned; the buffer itself is allocated at a multiple of 8
Aligned(offset, size) == offset % size = 0

\* the outcome of a raw-pointer access of `size` bytes at `offset`: a misaligned
\* dereference is undefined behaviour, which a build with debug assertions turns into
\* a panic and a build without them performs
Performs(offset, size, checked) == Aligned(offset, size) \/ ~checked

\* <Memory as Device>::read: the result
Memory_read(m, address, size, checked) ==
    LET a == Offset(address, MEMORY_START)
    IN IF Performs(a, size, checked)
       THEN Ok([k \in 1 .. size |-> Get(m, a + k - 1)])
       ELSE Panic

\* the bytes after a store of `bytes` at offset a
StoreBytes(m, a, bytes) ==
    LET touchedAt == a .. (a + Len(bytes) - 1)
        nonzero == {x \in touchedAt : bytes[x - a + 1] # 0}
    IN [x \in ((DOMAIN m \ touchedAt) \cup nonzero) |->
           IF x \in touchedAt THEN bytes[x - a + 1] ELSE m[x]]

\* <Memory as Device>::write: the bytes after and the result
Memory_write(m, address, size, data, checked) ==
    LET a == Offset(address, MEMORY_START)
    IN IF Performs(a, size, checked)
       THEN [mem |-> StoreBytes(m, a, ToLE(data, size)), res |-> Ok(0)]
       ELSE [mem |-> m, res |-> Panic]

(***************************************************************************)
(* SoC auxiliary device, register protocol  (src/src/devices/ysyx.rs)      *)
(* Presenting the frame buffer and polling host events are external.       *)
(***************************************************************************)
YSYX_START == <<8192, 0>>                                   \* 0x20000000
YSYX_END == AddrAdd(YSYX_START, 268435456 - 1)              \* + 0x10000000 - 1
VGA_WIDTH == 800 \div 2
VGA_HEIGHT == 600 \div 2
YSYX_TIME_LOW == YSYX_START
YSYX_TIME_HIGH == AddrAdd(YSYX_START, 8)
YSYX_VGACTL_ADDR_LOW == AddrAdd(YSYX_START, 256)
YSYX_VGACTL_ADDR_HIGH == AddrAdd(YSYX_START, 256 + 4)
YSYX_KBD_ADDR == AddrAdd(YSYX_START, 512)
YSYX_POWEROFF == AddrAdd(YSYX_START, 768)
YSYX_FB_START == AddrAdd(YSYX_START, 16777216)              \* + 0x01000000
YSYX_FB_END == AddrAdd(YSYX_FB_START, VGA_WIDTH * VGA_HEIGHT * 4 - 1)
KEYDOWN == 32768                                            \* 0x8000

\* keycode_to_amkey: the scancodes that have a key code, in the order of their codes
AmKeys ==
    << "Escape", "F1", "F2", "F3", "F4", "F5", "F6", "F7", "F8", "F9", "F10", "F11",
       "F12", "Grave", "Num1", "Num2", "Num3", "Num4", "Num5", "Num6", "Num7", "Num8",
       "Num9", "Num0", "Minus", "Equals", "Backspace", "Tab", "Q", "W", "E", "R", "T",
       "Y", "U", "I", "O", "P", "LeftBracket", "RightBracket", "Backslash", "CapsLock",
       "A", "S", "D", "F", "G", "H", "J", "K", "L", "Semicolon", "Apostrophe", "Return",
       "LShift", "Z", "X", "C", "V", "B", "N", "M", "Comma", "Period", "Slash", "RShift",
       "LCtrl", "Application", "LAlt", "Space", "RAlt", "RCtrl", "Up", "Down", "Left",
       "Right", "Insert", "Delete", "Home", "End", "PageUp", "PageDown" >>

\* Some(code) as <<code>>, None as << >>
keycode_to_amkey(scancode) ==
    IF \E i \in 1 .. Len(AmKeys) : AmKeys[i] = scancode
    THEN <<CHOOSE i \in 1 .. Len(AmKeys) : AmKeys[i] = scancode>>
    ELSE << >>

Ysyx_new == [vmem |-> << >>, key_queue |-> << >>, commands |-> << >>]

\* <Ysyx as Device>::clk on the host events the event pump yields, oldest first.  An
\* event is <<"Quit">>, <<"KeyDown", scancode>>, <<"KeyUp", scancode>> or <<"Other">>
\* (any other event, or a key event with no scancode).  A key code is below KEYDOWN,
\* so or-ing KEYDOWN into it adds it.
RECURSIVE Ysyx_clk(_, _)
Ysyx_clk(y, events) ==
    IF events = << >> THEN y
    ELSE LET event == Head(events)
             y1 == IF event[1] = "Quit"
                   THEN [y EXCEPT !.commands = send(@, "Poweroff")]
                   ELSE IF event[1] \in {"KeyDown", "KeyUp"}
                             /\ keycode_to_amkey(event[2]) # << >>
                   THEN [y EXCEPT !.key_queue =
                            Append(@, keycode_to_amkey(event[2])[1]
                                          + (IF event[1] = "KeyDown" THEN KEYDOWN ELSE 0))]
                   ELSE y
         IN Ysyx_clk(y1, Tail(events))

\* <Ysyx as Device>::read: the state after and the result; the wall clock is not
\* modelled, a read of it returns the token "millis"
Ysyx_read(y, address, size) ==
    IF size = 4 THEN
        IF address = YSYX_VGACTL_ADDR_LOW
        THEN [ysyx |-> y, res |-> Ok(VGA_WIDTH * Half + VGA_HEIGHT)]
        ELSE IF address = YSYX_VGACTL_ADDR_HIGH THEN [ysyx |-> y, res |-> Ok(0)]
        ELSE IF InRange(address, YSYX_FB_START, YSYX_FB_END)
        THEN [ysyx |-> y, res |-> Ok(Get(y.vmem, Offset(address, YSYX_FB_START) \div 4))]
        ELSE IF address = YSYX_KBD_ADDR
        THEN IF y.key_queue # << >>
             THEN [ysyx |-> [y EXCEPT !.key_queue = Tail(@)], res |-> Ok(Head(y.key_queue))]
             ELSE [ysyx |-> y, res |-> Ok(0)]
        ELSE [ysyx |-> y, res |-> BusException]
    ELSE IF size = 8 THEN
        IF address = YSYX_TIME_LOW THEN [ysyx |-> y, res |-> Ok("millis")]
        ELSE IF address = YSYX_TIME_HIGH THEN [ysyx |-> y, res |-> Ok(0)]
        ELSE [ysyx |-> y, res |-> BusException]
    ELSE [ysyx |-> y, res |-> BusException]

\* <Ysyx as Device>::write: the state after and the result
Ysyx_write(y, address, size, data) ==
    IF size = 1 THEN
        IF address = YSYX_POWEROFF
        THEN [ysyx |-> [y EXCEPT !.commands = send(@, "Poweroff")], res |-> Ok(0)]
        ELSE [ysyx |-> y, res |-> BusException]
    ELSE IF size = 4 THEN
        IF address = YSYX_VGACTL_ADDR_HIGH THEN [ysyx |-> y, res |-> Ok(0)]
        ELSE IF InRange(address, YSYX_FB_START, YSYX_FB_END)
        THEN [ysyx |-> [y EXCEPT !.vmem = Put(@, Offset(address, YSYX_FB_START) \div 4, data)],
              res |-> Ok(0)]
        ELSE [ysyx |-> y, res |-> BusException]
    ELSE [ysyx |-> y, res |-> BusException]

(***************************************************************************)
(* Bus  (src/src/bus.rs)                                                   *)
(***************************************************************************)
\* the state after construction (Bus::new)
InitBusOther ==
    /\ rxq = << >>
    /\ txq = << >>
    /\ mem = << >>
    /\ ysyx = Ysyx_new
    /\ count = 0
    /\ panicked = FALSE
    /\ op = <<"new">>
    /\ ret = Unit
    /\ pc = 0
    /\ rets = << >>
    /\ touched = FALSE
    /\ pendChanged = FALSE
    /\ lastLevel = FALSE
    /\ chan = ChanNew

InitBus == plic = Plic_new /\ uart = Uart_new /\ InitBusOther

\* Bus::read: the devices after and the result
Bus_read(address, size) ==
    LET same == [plic |-> plic, uart |-> uart, rxq |-> rxq, ysyx |-> ysyx, res |-> Unit]
    IN IF InRange(address, MEMORY_START, MEMORY_END)
       THEN [same EXCEPT !.res = Memory_read(mem, address, size, build = "debug")]
       ELSE IF InRange(address, PLIC_START, PLIC_END)
       THEN LET r == Plic_read(plic, address, size)
            IN [same EXCEPT !.plic = r.plic, !.res = r.res]
       ELSE IF InRange(address, UART_START, UART_END)
       THEN LET r == Uart_read(uart, rxq, address, size)
            IN [same EXCEPT !.uart = r.uart, !.rxq = r.rx, !.res = r.res]
       ELSE IF InRange(address, YSYX_START, YSYX_END)
       THEN LET r == Ysyx_read(ysyx, address, size)
            IN [same EXCEPT !.ysyx = r.ysyx, !.res = r.res]
       ELSE [same EXCEPT !.res = BusException]

\* Bus::write: the devices after and the result
Bus_write(address, size, data) ==
    LET same == [plic |-> plic, uart |-> uart, rxq |-> rxq, txq |-> txq, mem |-> mem,
                 ysyx |-> ysyx, res |-> Unit]
    IN IF InRange(address, MEMORY_START, MEMORY_END)
       THEN LET r == Memory_write(mem, address, size, data, build = "debug")
            IN [same EXCEPT !.mem = r.mem, !.res = r.res]
       ELSE IF InRange(address, PLIC_START, PLIC_END)
       THEN LET r == Plic_write(plic, address, size, data)
            IN [same EXCEPT !.plic = r.plic, !.res = r.res]
       ELSE IF InRange(address, UART_START, UART_END)
       THEN LET r == Uart_write(uart, rxq, txq, address, size, data)
            IN [same EXCEPT !.uart = r.uart, !.rxq = r.rx, !.txq = r.tx, !.res = r.res]
       ELSE IF InRange(address, YSYX_START, YSYX_END)
       THEN LET r == Ysyx_write(ysyx, address, size, data)
            IN [same EXCEPT !.ysyx = r.ysyx, !.res = r.res]
       ELSE [same EXCEPT !.res = BusException]

ScriptUnchanged == UNCHANGED <<pc, args, rets>>

\* how an access is recorded in op: a 4-byte read of a claim register as
\* <<"claim", context>>, a 4-byte write of one as <<"complete", context, data>>
IsClaimAccess(address, size) == size = 4 /\ \E c \in Contexts : address = ClaimAddr(c)
ContextOf(address) == CHOOSE c \in Contexts : address = ClaimAddr(c)

(***************************************************************************)
(* The thread that calls the Bus.  The harness threads hold the other ends *)
(* of the UART's channels, so a Bus call that makes two calls on a channel *)
(* has the mutex free between them and is two steps; chan.at["cpu"] is     *)
(* where the CPU thread stands:                                            *)
(*   "idle"       between Bus calls                                        *)
(*   "rbr_recv"   in a data-register read, avaliable() returned true       *)
(*                (uart.rs 139), recv() not yet called (141)               *)
(*   "thr_send"   in a data-register write, avaliable() returned false     *)
(*                (uart.rs 170), send() not yet called (173/175)           *)
(*   "clk_clear"  in Uart::clk, avaliable() done (uart.rs 93),             *)
(*                clear() not yet called (98)                              *)
(* While a call is under way op is <<"enter", ...>> and ret is Pending,    *)
(* whatever the harness does meanwhile; op names the call and ret holds    *)
(* its result from the step that completes it.  Every other call takes the *)
(* channel mutex at most once and is one step.                             *)
(***************************************************************************)
Pending == [kind |-> "Pending", val |-> 0]

CpuIdle == chan.at["cpu"] = "idle"

\* the read that reaches receiver.avaliable() (uart.rs 139) and finds a value
ReadRecvs(address, size) ==
    /\ address = UART_RBR_DLL
    /\ size = 1
    /\ And8(uart.lcr, UART_LCR_DLAB) = 0
    /\ And8(uart.lsr, UART_LSR_BI) = 0
    /\ avaliable(rxq)

\* the write that reaches receiver.avaliable() (uart.rs 170) and finds no value
WriteSends(address, size) ==
    /\ address = UART_THR
    /\ size = 1
    /\ And8(uart.lcr, UART_LCR_DLAB) = 0
    /\ And8(uart.fcr, UART_FCR_ENABLE_FIFO) = 0
    /\ ~avaliable(rxq)

\* Bus::read(address, size), up to the point where it returns or, in a data-register
\* read that found a value, up to the call of recv
BusRead(address, size) ==
    /\ ~panicked
    /\ CpuIdle
    /\ IF ReadRecvs(address, size)
       THEN /\ chan' = [chan EXCEPT !.at["cpu"] = "rbr_recv"]
            /\ op' = <<"enter", "read", address, size>>
            /\ ret' = Pending
            /\ UNCHANGED <<plic, uart, rxq, ysyx, panicked, touched, pendChanged>>
       ELSE /\ \E r \in {Bus_read(address, size)} :
                  /\ plic' = r.plic
                  /\ uart' = r.uart
                  /\ rxq' = r.rxq
                  /\ ysyx' = r.ysyx
                  /\ ret' = r.res
                  /\ panicked' = (r.res.kind = "Panic")
                  /\ touched' = (touched \/ (r.res.kind = "Ok" /\ IsClaimAccess(address, size)))
                  /\ pendChanged' = (pendChanged \/ r.plic.pending # plic.pending)
            /\ op' = IF IsClaimAccess(address, size)
                     THEN <<"claim", ContextOf(address)>>
                     ELSE <<"read", address, size>>
            /\ UNCHANGED chan
    /\ UNCHANGED <<txq, mem, count, build, cpu, lastLevel>>

\* the rest of a data-register read: uart.rs 140-141, and the read returns
BusReadRecv ==
    /\ ~panicked
    /\ chan.at["cpu"] = "rbr_recv"
    /\ avaliable(rxq)
    /\ \E r \in {rbr_recv(uart, rxq)} :
          /\ uart' = r.uart
          /\ rxq' = r.rx
          /\ ret' = r.res
    /\ op' = <<"read", op[3], op[4]>>
    /\ chan' = [chan EXCEPT !.at["cpu"] = "idle"]
    /\ UNCHANGED <<plic, txq, mem, ysyx, count, build, cpu, panicked, touched,
                   pendChanged, lastLevel>>

\* Sender::send line 35 on the UART's output channel and on the command channel:
\* notify_one wakes the harness thread if it waits in recv on that channel
NotifyOut(c) ==
    IF c.at["h"] = "out_waiting" THEN [c EXCEPT !.at["h"] = "out_woken"] ELSE c
NotifyCmd(c) ==
    IF c.at["h"] = "cmd_waiting" THEN [c EXCEPT !.at["h"] = "cmd_woken"] ELSE c

\* Bus::write(address, size, data), up to the point where it returns or, in a
\* data-register write that found no received value, up to the call of send.  A write
\* that sends on the output channel or on the command channel panics in lock().unwrap()
\* (channel.rs 33) when that channel's mutex is poisoned.
BusWrite(address, size, data) ==
    /\ ~panicked
    /\ CpuIdle
    /\ IF WriteSends(address, size)
       THEN /\ chan' = [chan EXCEPT !.at["cpu"] = "thr_send"]
            /\ op' = <<"enter", "write", address, size, data>>
            /\ ret' = Pending
            /\ UNCHANGED <<plic, uart, rxq, txq, mem, ysyx, panicked>>
       ELSE /\ \E r \in {Bus_write(address, size, data)} :
               \E out \in {r.txq # txq}, cmd \in {r.ysyx.commands # ysyx.commands} :
                  IF (out /\ chan.out_poisoned) \/ (cmd /\ chan.cmd_poisoned)
                  THEN /\ uart' = r.uart
                       /\ ret' = Panic
                       /\ panicked' = TRUE
                       /\ UNCHANGED <<plic, rxq, txq, mem, ysyx, chan>>
                  ELSE /\ plic' = r.plic
                       /\ uart' = r.uart
                       /\ rxq' = r.rxq
                       /\ txq' = r.txq
                       /\ mem' = r.mem
                       /\ ysyx' = r.ysyx
                       /\ ret' = r.res
                       /\ panicked' = (r.res.kind = "Panic")
                       /\ chan' = IF out THEN NotifyOut(chan)
                                  ELSE IF cmd THEN NotifyCmd(chan) ELSE chan
            /\ op' = IF IsClaimAccess(address, size)
                     THEN <<"complete", ContextOf(address), data>>
                     ELSE <<"write", address, size, data>>
    /\ UNCHANGED <<count, build, cpu, touched, pendChanged, lastLevel>>

\* the rest of a data-register write: uart.rs 172-177, and the write returns, or
\* panics in send on the poisoned mutex of the output channel
BusWriteSend ==
    /\ ~panicked
    /\ chan.at["cpu"] = "thr_send"
    /\ \E r \in {thr_send(uart, rxq, txq, op[5])} :
          IF r.tx # txq /\ chan.out_poisoned
          THEN /\ uart' = r.uart
               /\ ret' = Panic
               /\ panicked' = TRUE
               /\ chan' = [chan EXCEPT !.at["cpu"] = "panicked"]
               /\ UNCHANGED <<rxq, txq>>
          ELSE /\ uart' = r.uart
               /\ rxq' = r.rx
               /\ txq' = r.tx
               /\ ret' = Ok(0)
               /\ chan' = IF r.tx # txq
                          THEN NotifyOut([chan EXCEPT !.at["cpu"] = "idle"])
                          ELSE [chan EXCEPT !.at["cpu"] = "idle"]
               /\ UNCHANGED panicked
    /\ op' = <<"write", op[3], op[4], op[5]>>
    /\ UNCHANGED <<plic, mem, ysyx, count, build, cpu, touched, pendChanged, lastLevel>>

\* Bus::interrupt
BusInterrupt ==
    /\ ~panicked
    /\ CpuIdle
    /\ \E r \in {check_interrupt(plic)} :
          /\ plic' = r.plic
          /\ ret' = r.res
          /\ lastLevel' = IF r.res.kind = "Some" THEN r.res.val ELSE lastLevel
    /\ op' = <<"interrupt">>
    /\ touched' = FALSE
    /\ pendChanged' = FALSE
    /\ UNCHANGED <<uart, rxq, txq, mem, ysyx, count, build, cpu, chan, panicked>>

\* Plic::irq(s, lvl), as Bus::clk calls it for a collected event
PlicIrq(s, lvl) ==
    /\ ~panicked
    /\ CpuIdle
    /\ plic' = Plic_irq(plic, s, lvl)
    /\ op' = <<"irq", s, lvl>>
    /\ ret' = Unit
    /\ touched' = (touched \/ plic'.pending # plic.pending)
    /\ pendChanged' = (pendChanged \/ plic'.pending # plic.pending)
    /\ UNCHANGED <<uart, rxq, txq, mem, ysyx, count, build, cpu, chan, panicked, lastLevel>>

(***************************************************************************)
(* SpecPlic: any sequence of PLIC operations by a hart that uses the       *)
(* registers of one context, cpu.                                          *)
(***************************************************************************)
PlicSources == {1, 9}
PlicCpus == {0, 3}
PlicReadInputs == {ClaimAddr(cpu)}
PlicWriteInputs ==
    { <<PriorityAddr(1), 1>>, <<PriorityAddr(1), 3>>, <<PriorityAddr(9), 3>>,
      <<EnableAddr(cpu, 0), 2>>, <<EnableAddr(cpu, 0), 514>>,
      <<ThresholdAddr(cpu), 1>>, <<ThresholdAddr(cpu), 0>>,
      <<ClaimAddr(cpu), 0>>, <<ClaimAddr(cpu), 1>>, <<ClaimAddr(cpu), 9>> }

InitPlic == InitBus /\ build = "release" /\ args = << >> /\ cpu \in PlicCpus

NextPlic ==
    \/ \E s \in PlicSources, lvl \in BOOLEAN : PlicIrq(s, lvl) /\ ScriptUnchanged
    \/ BusInterrupt /\ ScriptUnchanged
    \/ \E a \in PlicReadInputs : BusRead(a, 4) /\ ScriptUnchanged
    \/ \E w \in PlicWriteInputs : BusWrite(w[1], 4, w[2]) /\ ScriptUnchanged

SpecPlic == InitPlic /\ [][NextPlic]_vars

\* eligibility as the claims define it, by which the code is judged: source s is
\* enabled for the context, pending, not itself claimed and unacknowledged by the
\* context, and of a priority above the threshold.  highest_irq_hit is what the code
\* tests; the two differ in the claimed flag they look at.
Eligible(p, context, s) ==
    /\ s \in p.enable[context]
    /\ s \in p.pending
    /\ s \notin p.claimed[context]
    /\ ULt(p.threshold[context], Get(p.priorities, s))

\* C2: a claim never returns a nonzero source that, when the call is made, is not
\* enabled for the context, is not pending, or has priority <= the context's threshold.
C2_ClaimReturnsEligible ==
    [][ (op'[1] = "claim" /\ ret'.kind = "Ok" /\ ret'.val # 0) =>
            LET s == ret'.val
                c == op'[2]
            IN /\ s \in plic.enable[c]
               /\ s \in plic.pending
               /\ Get(plic.priorities, s) > plic.threshold[c]
               /\ Get(plic.priorities, s) > 0 ]_vars

\* a claim has just returned a source
C2_Witness == op[1] = "claim" /\ ret.kind = "Ok" /\ ret.val # 0

\* C3 as stated: interrupt() returns Some(level) only when the level differs from the
\* level last reported (initially not asserted).
C3_EdgeTriggered ==
    [][ (op'[1] = "interrupt" /\ ret'.kind = "Some") => ret'.val # lastLevel ]_vars

\* C3 amended: interrupt() returns Some(level) exactly when, since the previous
\* interrupt() (or construction), an irq changed a pending bit or a claim register was
\* read, and None otherwise; level tells whether highest_irq(0) selects a source.
C3_ReportsOnUpdate ==
    [][ op'[1] = "interrupt" =>
            /\ (ret'.kind = "Some") <=> touched
            /\ (ret'.kind # "Some") => ret' = None
            /\ (ret'.kind = "Some") => (ret'.val <=> highest_irq(plic, 0) # 0) ]_vars

\* interrupt() has just reported an asserted level
C3_Witness == op[1] = "interrupt" /\ ret.kind = "Some" /\ ret.val

\* C4: check_interrupt() returns Some exactly when the pending bitmap changed since the
\* previous check_interrupt(), and the level it reports is whether some source is
\* eligible for context 0.
C4_ChangeReporting ==
    [][ op'[1] = "interrupt" =>
            /\ (ret'.kind = "Some") <=> pendChanged
            /\ (ret'.kind = "Some") =>
                   (ret'.val <=> \E s \in 1 .. (INTERRUPT_COUNT - 1) : Eligible(plic, 0, s))
      ]_vars

(***************************************************************************)
(* SpecCycle: the claim/complete cycle on a freshly constructed PLIC.      *)
(* The script is drawn at Init: source s, context c, priority prio and     *)
(* threshold thr with prio > thr.  Steps:                                  *)
(*   0 write priorities[s]   1 write threshold(c)   2 write the enable bit *)
(*   3 irq(s, true)   4 claim(c)   5 claim(c)   6 complete(c, s)           *)
(*   7 irq(s, true)   8 claim(c)   9 done                                  *)
(***************************************************************************)
CycleSources == {1, 5, 7, 8, 9, 30, 32, 33, 40, 62}
CyclePriorities == { <<3, 1>>, <<1, 0>>, <<7, 6>> }

InitCycle ==
    /\ InitBus
    /\ build = "release"
    /\ cpu = 0
    /\ \E s \in CycleSources, c \in Contexts, pt \in CyclePriorities :
          args = [s |-> s, c |-> c, prio |-> pt[1], thr |-> pt[2]]

CycleConfigure ==
    /\ pc \in {0, 1, 2}
    /\ \/ pc = 0 /\ BusWrite(PriorityAddr(args.s), 4, args.prio)
       \/ pc = 1 /\ BusWrite(ThresholdAddr(args.c), 4, args.thr)
       \/ pc = 2 /\ BusWrite(EnableAddr(args.c, args.s \div 32), 4, Pow2(args.s % 32))
    /\ pc' = pc + 1
    /\ UNCHANGED <<args, rets>>

CycleRaise ==
    /\ pc \in {3, 7}
    /\ PlicIrq(args.s, TRUE)
    /\ pc' = pc + 1
    /\ UNCHANGED <<args, rets>>

CycleClaim ==
    /\ pc \in {4, 5, 8}
    /\ BusRead(ClaimAddr(args.c), 4)
    /\ rets' = Append(rets, ret')
    /\ pc' = pc + 1
    /\ UNCHANGED args

CycleComplete ==
    /\ pc = 6
    /\ BusWrite(ClaimAddr(args.c), 4, args.s)
    /\ pc' = pc + 1
    /\ UNCHANGED <<args, rets>>

NextCycle == CycleConfigure \/ CycleRaise \/ CycleClaim \/ CycleComplete

SpecCycle == InitCycle /\ [][NextCycle]_vars

\* C1: on a fresh PLIC with priority[s] > threshold(c) and s enabled for c, after
\* irq(s, true) claim(c) returns s, the claim(c) right after returns 0, and after
\* complete(c, s) and irq(s, true) claim(c) returns s again.
C1_ClaimCompleteCycle ==
    /\ Len(rets) >= 1 => rets[1] = Ok(args.s)
    /\ Len(rets) >= 2 => rets[2] = Ok(0)
    /\ Len(rets) >= 3 => rets[3] = Ok(args.s)

\* the documented instance of C1: priority[5] = 3, threshold(0) = 1
C1_DocumentedExample ==
    (args = [s |-> 5, c |-> 0, prio |-> 3, thr |-> 1] /\ pc = 9) =>
        rets = <<Ok(5), Ok(0), Ok(5)>>

(***************************************************************************)
(* SpecDecode: one Bus::read or Bus::write after the other, at most        *)
(* MaxAccesses of them, on addresses at and around the edges of every      *)
(* device window, from a Bus that is fresh or whose UART is in             *)
(* divisor-latch mode or whose PLIC has source 1 configured and pending.   *)
(***************************************************************************)
MaxAccesses == 1

DecodeAddrs ==
    { <<0, 0>>, <<3071, 65535>>, <<4096, 8>>, <<4097, 0>>, <<8191, 65535>>,
      <<12288, 0>>, <<32767, 65535>>, <<49152, 0>>, <<65535, 65535>>,
      PLIC_START, PLIC_END, PriorityAddr(1), PriorityAddr(PRIORITIES_LEN),
      AddrAdd(PLIC_START, 4 * 257), PendingAddr(0), PendingAddr(PENDING_LEN),
      EnableAddr(0, 0), EnableAddr(0, ENABLE_LEN), EnableAddr(4, 0),
      ThresholdAddr(0), ThresholdAddr(4), ClaimAddr(0), ClaimAddr(4),
      AddrAdd(ThresholdAddr(0), 4),
      UART_START, UART_IER_ILM, UART_LCR, UART_LSR, UART_MSR, UART_END,
      YSYX_START, YSYX_VGACTL_ADDR_LOW, YSYX_POWEROFF, YSYX_FB_START, YSYX_END,
      MEMORY_START, AddrAdd(MEMORY_START, 8), AddrAdd(MEMORY_END, -7) }
DecodeSizes == {1, 2, 4, 8}
DecodeData == {1, 1024}

PlicSource1Pending ==
    [Plic_new EXCEPT !.priorities = Put(@, 1, 1), !.enable[0] = {1}, !.pending = {1},
                     !.update = TRUE]

InitDecode ==
    /\ InitBusOther
    /\ plic \in {Plic_new, PlicSource1Pending}
    /\ uart \in {Uart_new, [Uart_new EXCEPT !.lcr = UART_LCR_DLAB]}
    /\ build \in {"debug", "release"}
    /\ args = << >>
    /\ cpu = 0

DecodeRead ==
    /\ pc < MaxAccesses
    /\ \E a \in DecodeAddrs, size \in DecodeSizes : BusRead(a, size)
    /\ pc' = pc + 1
    /\ UNCHANGED <<args, rets>>

DecodeWrite ==
    /\ pc < MaxAccesses
    /\ \E a \in DecodeAddrs, size \in DecodeSizes, data \in DecodeData :
          BusWrite(a, size, data)
    /\ pc' = pc + 1
    /\ UNCHANGED <<args, rets>>

\* the rest of a write to the UART's data register
DecodeWriteSend == BusWriteSend /\ ScriptUnchanged

NextDecode == DecodeRead \/ DecodeWrite \/ DecodeWriteSend

SpecDecode == InitDecode /\ [][NextDecode]_vars

\* the four device ranges as the address map states them
InRAM(a) == InRange(a, <<32768, 0>>, <<49151, 65535>>)      \* 0x80000000..0xBFFFFFFF
InPLIC(a) == InRange(a, <<3072, 0>>, <<4095, 65535>>)       \* 0x0C000000..0x0FFFFFFF
InUART(a) == InRange(a, <<4096, 0>>, <<4096, 7>>)           \* 0x10000000..0x10000007
InSoC(a) == InRange(a, <<8192, 0>>, <<12287, 65535>>)       \* 0x20000000..0x2FFFFFFF

\* C5: no access that decodes into the PLIC window panics: it returns Ok or
\* BusException.
C5_PlicAccessNeverPanics ==
    (op[1] \in {"claim", "complete"} \/ (op[1] \in {"read", "write"} /\ InPLIC(op[2])))
        => ret.kind \in {"Ok", "Err"}

\* C6: an access outside the four device ranges returns BusException, and so does an
\* access inside the PLIC range of a width other than 4 and one inside the UART range
\* of a width other than 1.
C6_DecodingFaults ==
    op[1] \in {"read", "write"} =>
        /\ (~InRAM(op[2]) /\ ~InPLIC(op[2]) /\ ~InUART(op[2]) /\ ~InSoC(op[2]))
               => ret = BusException
        /\ (InPLIC(op[2]) /\ op[3] # 4) => ret = BusException
        /\ (InUART(op[2]) /\ op[3] # 1) => ret = BusException

\* a read just above the RAM range has faulted, and so has a 1-byte PLIC access
C6_Witness ==
    \/ op = <<"read", <<49152, 0>>, 8>> /\ ret = BusException
    \/ op[1] = "write" /\ InPLIC(op[2]) /\ op[3] = 1 /\ ret = BusException

(***************************************************************************)
(* SpecMem: a RAM write followed by reads of what it wrote.  The script is *)
(* drawn at Init: byte offset a, width W, value V < 2^(8W).  Steps:        *)
(*   0..3 fill offsets 0..15 with aligned 4-byte writes of MemFill         *)
(*   4 write(a, W, V)   5 read(a, W)   6.. read(a + k, 1) for k < W        *)
(***************************************************************************)
MemFill == 17 * 2 ^ 24 + 34 * 2 ^ 16 + 51 * 2 ^ 8 + 68      \* 0x11223344
MemOffsets == 0 .. 8
MemValues == {0, 171, 43981, 19088743, 2147483647}
MemInputs ==
    { <<a, W, V>> \in MemOffsets \X {1, 2, 4, 8} \X MemValues :
          W >= 4 \/ V < 256 ^ W }

InitMem ==
    /\ InitBusOther
    /\ plic = Plic_new
    /\ uart = Uart_new
    /\ build \in {"debug", "release"}
    /\ cpu = 0
    /\ \E i \in MemInputs : args = [a |-> i[1], W |-> i[2], V |-> i[3]]

MemFillStep ==
    /\ pc < 4
    /\ BusWrite(AddrAdd(MEMORY_START, 4 * pc), 4, MemFill)
    /\ pc' = pc + 1
    /\ UNCHANGED <<args, rets>>

MemWrite ==
    /\ pc = 4
    /\ BusWrite(AddrAdd(MEMORY_START, args.a), args.W, args.V)
    /\ rets' = Append(rets, ret')
    /\ pc' = pc + 1
    /\ UNCHANGED args

MemReadBack ==
    /\ pc = 5
    /\ BusRead(AddrAdd(MEMORY_START, args.a), args.W)
    /\ rets' = Append(rets, ret')
    /\ pc' = pc + 1
    /\ UNCHANGED args

MemReadByte ==
    /\ pc >= 6
    /\ pc < 6 + args.W
    /\ BusRead(AddrAdd(MEMORY_START, args.a + (pc - 6)), 1)
    /\ rets' = Append(rets, ret')
    /\ pc' = pc + 1
    /\ UNCHANGED args

NextMem == MemFillStep \/ MemWrite \/ MemReadBack \/ MemReadByte

SpecMem == InitMem /\ [][NextMem]_vars

\* base-256 digit k (0 = least significant) of a value below 2^31
Digit(V, k) == IF k < 4 THEN (V \div (256 ^ k)) % 256 ELSE 0

\* C7: write(a, W, V) followed by read(a, W) returns V; read(a + k, 1) returns byte k of
\* V, least significant first; every byte outside a .. a + W - 1 keeps its value.
C7_RamRoundTrip ==
    /\ Len(rets) >= 1 =>
          /\ rets[1] = Ok(0)
          /\ \A x \in (0 .. 15) \ (args.a .. (args.a + args.W - 1)) :
                 Get(mem, x) = Digit(MemFill, x % 4)
    /\ Len(rets) >= 2 => rets[2] = Ok([k \in 1 .. args.W |-> Digit(args.V, k - 1)])
    /\ \A k \in 0 .. (args.W - 1) :
          Len(rets) >= 3 + k => rets[3 + k] = Ok(<<Digit(args.V, k)>>)

\* C7 for the accesses that are not undefined behaviour: the same, for a multiple of W
C7_RamRoundTripAligned == (args.a % args.W = 0) => C7_RamRoundTrip

(***************************************************************************)
(* SpecUart: the UART's registers read and written through the Bus and its *)
(* clk called with a collector of its own, all by the CPU thread, with the *)
(* harness sending on its receive channel (one thread) and receiving from *)
(* and clearing its output channel (another).  Neither queue grows beyond  *)
(* MaxQueue values.  The mutex of the receive channel is never poisoned    *)
(* here: only the CPU thread could panic holding it, in recv, and it calls *)
(* recv on a non-empty buffer only.                                        *)
(***************************************************************************)
MaxQueue == 2

\* the events of an Irq collector handed to Plic::irq, last pushed first
RECURSIVE ApplyIrqs(_, _)
ApplyIrqs(p, evs) ==
    IF evs = << >> THEN p
    ELSE ApplyIrqs(Plic_irq(p, evs[Len(evs)][1], evs[Len(evs)][2]),
                   SubSeq(evs, 1, Len(evs) - 1))

\* the data byte is the reset value of the divisor latch, which a data-register write
\* in divisor-latch mode therefore leaves as it is
UartWriteInputs ==
    { <<UART_THR, 12>>, <<UART_IER_ILM, 0>>, <<UART_IER_ILM, 2>>,
      <<UART_FCR, 0>>, <<UART_FCR, 1>>, <<UART_LCR, 0>>, <<UART_LCR, 128>>,
      <<UART_MCR, 8>>, <<UART_MCR, 16>> }
UartReadInputs == {UART_RBR_DLL}
ExtBytes == {66}

InitUart == InitBus /\ build = "release" /\ args = << >> /\ cpu = 0

\* Uart::clk called with a fresh Irq collector, up to the point where it returns or,
\* with the clear-receive request bit set, up to the call of clear.  ret is the
\* collector when clk returns.
UartClk ==
    /\ ~panicked
    /\ CpuIdle
    /\ IF clk_clears(uart)
       THEN /\ uart' = Uart_clk_ready(uart, rxq)
            /\ chan' = [chan EXCEPT !.at["cpu"] = "clk_clear"]
            /\ op' = <<"enter", "clk">>
            /\ ret' = Pending
            /\ UNCHANGED rxq
       ELSE /\ \E r \in {Uart_clk(uart, rxq)} :
                  /\ uart' = r.uart
                  /\ rxq' = r.rx
                  /\ ret' = Collected(r.irqs)
            /\ op' = <<"clk">>
            /\ UNCHANGED chan
    /\ UNCHANGED <<plic, txq, mem, ysyx, count, build, cpu, panicked, touched,
                   pendChanged, lastLevel, pc, args, rets>>

\* the rest of that Uart::clk: lines 97-126, and clk returns
UartClkClear ==
    /\ ~panicked
    /\ chan.at["cpu"] = "clk_clear"
    /\ op[2] = "clk"
    /\ \E r \in {Uart_clk_rest(uart, rxq)} :
          /\ uart' = r.uart
          /\ rxq' = r.rx
          /\ ret' = Collected(r.irqs)
    /\ op' = <<"clk">>
    /\ chan' = [chan EXCEPT !.at["cpu"] = "idle"]
    /\ UNCHANGED <<plic, txq, mem, ysyx, count, build, cpu, panicked, touched,
                   pendChanged, lastLevel, pc, args, rets>>

UartWrite ==
    /\ Len(rxq) < MaxQueue
    /\ Len(txq) < MaxQueue
    /\ \E i \in UartWriteInputs : BusWrite(i[1], 1, i[2])
    /\ ScriptUnchanged

UartWriteSend == BusWriteSend /\ ScriptUnchanged

UartRead ==
    /\ \E a \in UartReadInputs : BusRead(a, 1)
    /\ ScriptUnchanged

UartReadRecv == BusReadRecv /\ ScriptUnchanged

\* what a harness call leaves in op and ret: nothing while a Bus call is under way
HarnessDid(o, r) ==
    /\ op' = IF CpuIdle THEN o ELSE op
    /\ ret' = IF CpuIdle THEN r ELSE ret

\* the harness thread: Sender::send on the UART's receive channel.  A data-register
\* write that is about to loop its byte back has its place in the bounded queue.
ExtSend ==
    /\ ~panicked
    /\ Len(rxq) < (IF chan.at["cpu"] = "thr_send" /\ And8(uart.mcr, UART_MCR_LOOP) # 0
                   THEN MaxQueue - 1 ELSE MaxQueue)
    /\ \E b \in ExtBytes :
          /\ rxq' = send(rxq, b)
          /\ HarnessDid(<<"send", b>>, Unit)
    /\ UNCHANGED <<plic, uart, txq, mem, ysyx, count, build, cpu, chan, panicked,
                   touched, pendChanged, lastLevel, pc, args, rets>>

\* the harness thread: Receiver::clear on DeviceController.uart_receiver, the UART's
\* output channel
ExtClear ==
    /\ ~panicked
    /\ chan.at["h"] = "idle"
    /\ IF chan.out_poisoned
       THEN /\ chan' = [chan EXCEPT !.at["h"] = "panicked"]
            /\ HarnessDid(<<"clear", "panics">>, Unit)
            /\ UNCHANGED txq
       ELSE /\ txq' = clear(txq)
            /\ HarnessDid(<<"clear">>, Unit)
            /\ UNCHANGED chan
    /\ UNCHANGED <<plic, uart, rxq, mem, ysyx, count, build, cpu, panicked,
                   touched, pendChanged, lastLevel, pc, args, rets>>

\* the harness thread: Receiver::recv on DeviceController.uart_receiver, lines 51-56:
\* on a non-empty buffer it returns the oldest value, on an empty one it waits
ExtRecv ==
    /\ ~panicked
    /\ chan.at["h"] = "idle"
    /\ IF chan.out_poisoned
       THEN /\ chan' = [chan EXCEPT !.at["h"] = "panicked"]
            /\ HarnessDid(<<"recv", "panics">>, Unit)
            /\ UNCHANGED txq
       ELSE IF avaliable(txq)
       THEN /\ txq' = Tail(txq)
            /\ HarnessDid(<<"recv">>, Ok(Head(txq)))
            /\ UNCHANGED chan
       ELSE /\ chan' = [chan EXCEPT !.at["h"] = "out_waiting"]
            /\ HarnessDid(<<"recv", "waits">>, Pending)
            /\ UNCHANGED txq
    /\ UNCHANGED <<plic, uart, rxq, mem, ysyx, count, build, cpu, panicked,
                   touched, pendChanged, lastLevel, pc, args, rets>>

\* the rest of that recv, lines 53-56: Condvar::wait returns with the mutex, notified
\* or not, and pop_front().unwrap() returns the oldest value or, on an empty buffer,
\* panics with the mutex held, which poisons it
ExtRecvWake ==
    /\ ~panicked
    /\ chan.at["h"] \in {"out_waiting", "out_woken"}
    /\ IF chan.out_poisoned
       THEN /\ chan' = [chan EXCEPT !.at["h"] = "panicked"]
            /\ HarnessDid(<<"recv", "panics">>, Unit)
            /\ UNCHANGED txq
       ELSE IF avaliable(txq)
       THEN /\ txq' = Tail(txq)
            /\ HarnessDid(<<"recv">>, Ok(Head(txq)))
            /\ chan' = [chan EXCEPT !.at["h"] = "idle"]
       ELSE /\ chan' = [chan EXCEPT !.at["h"] = "panicked", !.out_poisoned = TRUE]
            /\ HarnessDid(<<"recv", "panics">>, Unit)
            /\ UNCHANGED txq
    /\ UNCHANGED <<plic, uart, rxq, mem, ysyx, count, build, cpu, panicked,
                   touched, pendChanged, lastLevel, pc, args, rets>>

NextUart ==
    \/ UartClk \/ UartWrite \/ UartWriteSend \/ UartRead \/ UartReadRecv
    \/ ExtSend \/ ExtClear \/ ExtRecv \/ ExtRecvWake

SpecUart == InitUart /\ [][NextUart]_vars

\* a 1-byte write to the data register returns, made with loopback set and
\* divisor-latch access clear
LoopbackWrite ==
    /\ op'[1] = "write" /\ op'[2] = UART_THR /\ op'[3] = 1
    /\ And8(uart.mcr, UART_MCR_LOOP) # 0
    /\ And8(uart.lcr, UART_LCR_DLAB) = 0

\* C8 as stated: every such write appends its byte to the receive queue and nothing
\* to the output channel.
C8_Loopback ==
    [][LoopbackWrite => (rxq' = Append(rxq, op'[4] % 256) /\ txq' = txq)]_vars

\* C8 as the code has it: such a write appends its byte to the receive queue and
\* nothing to the output channel when the FIFOs are enabled or it found no received
\* byte waiting; with the FIFOs disabled and a byte found waiting it is dropped,
\* overrun is flagged and neither queue changes.  A data-register read with
\* divisor-latch access clear returns the oldest byte of the receive queue.
C8_LoopbackUnlessOverrun ==
    [][/\ LoopbackWrite =>
            IF And8(uart.fcr, UART_FCR_ENABLE_FIFO) # 0 \/ chan.at["cpu"] = "thr_send"
            THEN rxq' = Append(rxq, op'[4] % 256) /\ txq' = txq
            ELSE /\ rxq # << >>
                 /\ rxq' = rxq /\ txq' = txq /\ And8(uart'.lsr, UART_LSR_OE) # 0
       /\ (chan.at["cpu"] = "idle" /\ chan'.at["cpu"] = "thr_send") => rxq = << >>
       /\ (/\ op' = <<"read", UART_RBR_DLL, 1>>
           /\ And8(uart.lcr, UART_LCR_DLAB) = 0
           /\ rxq # << >>) => (ret' = Ok(Head(rxq)) /\ rxq' = Tail(rxq))]_vars

\* with the FIFOs disabled, a looped-back byte queued behind a byte that the harness
\* sent after the write had found the queue empty; nothing on the output
C8_Witness ==
    /\ op = <<"write", UART_THR, 1, 12>>
    /\ And8(uart.mcr, UART_MCR_LOOP) # 0
    /\ And8(uart.lcr, UART_LCR_DLAB) = 0
    /\ And8(uart.fcr, UART_FCR_ENABLE_FIFO) = 0
    /\ And8(uart.lsr, UART_LSR_OE) = 0
    /\ rxq = <<66, 12>>
    /\ txq = << >>

\* C9: after a Uart::clk run with IER bit 1 clear, LSR has TEMT and THRE set.
C9_TransmitReady ==
    [][(op'[1] = "clk" /\ And8(uart.ier, UART_IER_THRI) = 0)
          => And8(uart'.lsr, Or8(UART_LSR_TEMT, UART_LSR_THRE))
                 = Or8(UART_LSR_TEMT, UART_LSR_THRE)]_vars

\* a clk with IER bit 1 clear has run after register and data writes, one of which
\* dropped a byte
C9_Witness ==
    /\ op[1] = "clk"
    /\ And8(uart.ier, UART_IER_THRI) = 0
    /\ And8(uart.lsr, UART_LSR_OE) # 0
    /\ And8(uart.lsr, Or8(UART_LSR_TEMT, UART_LSR_THRE))
           = Or8(UART_LSR_TEMT, UART_LSR_THRE)

(***************************************************************************)
(* SpecChan: one channel used by threads  (src/src/utils/channel.rs).      *)
(* Two threads hold Sender clones and one thread holds the Receiver; the   *)
(* buffer is rxq.  Each call is taken statement by statement, the mutex    *)
(* and the condition variable included.  Sender t sends the values         *)
(* SendBase(t) + 1 .. SendBase(t) + MaxSends, so every sent value differs. *)
(* chan.order lists the sent values in the order the sends took the lock,  *)
(* chan.got the values recv returned, in order.                            *)
(***************************************************************************)
InitChan == InitBus /\ build = "release" /\ args = << >> /\ cpu = 0

ChanOnly ==
    UNCHANGED <<plic, uart, txq, mem, ysyx, count, build, panicked, op, ret, cpu,
                pc, args, rets, touched, pendChanged, lastLevel>>

\* Sender::send, line 33: lock().unwrap(); a poisoned mutex makes unwrap panic
SendLock(t) ==
    /\ chan.at[t] = "idle"
    /\ chan.sent[t] < MaxSends
    /\ chan.lock = "free"
    /\ chan' = IF chan.poisoned
               THEN [chan EXCEPT !.at[t] = "panicked"]
               ELSE [chan EXCEPT !.lock = t, !.at[t] = "locked",
                                 !.order = Append(@, SendBase(t) + chan.sent[t] + 1)]
    /\ UNCHANGED rxq
    /\ ChanOnly

\* Sender::send, line 34: push_back
SendPush(t) ==
    /\ chan.at[t] = "locked"
    /\ rxq' = send(rxq, SendBase(t) + chan.sent[t] + 1)
    /\ chan' = [chan EXCEPT !.at[t] = "pushed", !.sent[t] = @ + 1]
    /\ ChanOnly

\* Sender::send, line 35: notify_one wakes a thread waiting on the condition variable
SendNotify(t) ==
    /\ chan.at[t] = "pushed"
    /\ \/ \E r \in Receivers \cup Cpus :
             /\ chan.at[r] = "waiting"
             /\ chan' = [chan EXCEPT !.at[t] = "notified", !.at[r] = "woken"]
       \/ /\ \A r \in Receivers \cup Cpus : chan.at[r] # "waiting"
          /\ chan' = [chan EXCEPT !.at[t] = "notified"]
    /\ UNCHANGED rxq
    /\ ChanOnly

\* Sender::send, line 36: the guard is dropped
SendUnlock(t) ==
    /\ chan.at[t] = "notified"
    /\ chan' = [chan EXCEPT !.at[t] = "idle", !.lock = "free"]
    /\ UNCHANGED rxq
    /\ ChanOnly

\* Receiver::recv, line 51: lock().unwrap()
RecvLock(r) ==
    /\ chan.at[r] = "idle"
    /\ chan.lock = "free"
    /\ chan' = IF chan.poisoned
               THEN [chan EXCEPT !.at[r] = "panicked"]
               ELSE [chan EXCEPT !.lock = r, !.at[r] = "locked"]
    /\ UNCHANGED rxq
    /\ ChanOnly

\* Receiver::recv, lines 52-53: an empty buffer makes the thread wait once, which
\* releases the mutex
RecvCheck(r) ==
    /\ chan.at[r] = "locked"
    /\ chan' = IF rxq = << >>
               THEN [chan EXCEPT !.at[r] = "waiting", !.lock = "free"]
               ELSE [chan EXCEPT !.at[r] = "pop"]
    /\ UNCHANGED rxq
    /\ ChanOnly

\* Condvar::wait may return without a notification
RecvSpuriousWake(r) ==
    /\ chan.at[r] = "waiting"
    /\ chan' = [chan EXCEPT !.at[r] = "woken"]
    /\ UNCHANGED rxq
    /\ ChanOnly

\* Condvar::wait takes the mutex again before it returns; on a poisoned mutex it
\* returns Err and unwrap panics (line 53)
RecvReacquire(r) ==
    /\ chan.at[r] = "woken"
    /\ chan.lock = "free"
    /\ chan' = IF chan.poisoned
               THEN [chan EXCEPT !.at[r] = "panicked"]
               ELSE [chan EXCEPT !.lock = r, !.at[r] = "pop"]
    /\ UNCHANGED rxq
    /\ ChanOnly

\* Receiver::recv, lines 55-56: pop_front().unwrap() and the guard is dropped;
\* on an empty buffer unwrap panics with the mutex held, which poisons it
RecvPop(r) ==
    /\ chan.at[r] = "pop"
    /\ IF rxq = << >>
       THEN /\ chan' = [chan EXCEPT !.at[r] = "panicked", !.lock = "free",
                                    !.poisoned = TRUE]
            /\ UNCHANGED rxq
       ELSE /\ chan' = [chan EXCEPT !.at[r] = "idle", !.lock = "free",
                                    !.got = Append(@, Head(rxq))]
            /\ rxq' = Tail(rxq)
    /\ ChanOnly

NextChan ==
    \/ \E t \in Senders : SendLock(t)
    \/ \E t \in Senders : SendPush(t)
    \/ \E t \in Senders : SendNotify(t)
    \/ \E t \in Senders : SendUnlock(t)
    \/ \E r \in Receivers : RecvLock(r)
    \/ \E r \in Receivers : RecvCheck(r)
    \/ \E r \in Receivers : RecvSpuriousWake(r)
    \/ \E r \in Receivers : RecvReacquire(r)
    \/ \E r \in Receivers : RecvPop(r)

SpecChan == InitChan /\ [][NextChan]_vars

\* the sends that have pushed their value, in the order they took the lock
PushedInLockOrder ==
    IF \E t \in Senders : chan.at[t] = "locked"
    THEN SubSeq(chan.order, 1, Len(chan.order) - 1)
    ELSE chan.order

\* C10: the values recv has returned, followed by the values still queued, are the
\* sent values in the order the sends took the lock: recv returns them in that order,
\* none lost, duplicated or reordered.
C10_ChannelFifo == chan.got \o rxq = PushedInLockOrder

\* every value of both senders has been received, the two senders' values interleaved
C10_Witness ==
    /\ Len(chan.got) = 2 * MaxSends
    /\ rxq = << >>
    /\ chan.got[1] > 10
    /\ chan.got[2] < 10

\* C11: a recv does not dequeue from an empty queue, whatever woke it: a receiver that
\* has reached pop_front holds the lock on a non-empty buffer; and every value recv has
\* returned is a value that was sent.
C11_RecvNeverPopsEmpty ==
    /\ \A r \in Receivers : chan.at[r] = "pop" => rxq # << >>
    /\ \A i \in 1 .. Len(chan.got) : \E j \in 1 .. Len(chan.order) : chan.got[i] = chan.order[j]

(***************************************************************************)
(* SpecBusChan: the CPU thread's Bus calls on the UART's two channels,     *)
(* against harness threads that send on the receive channel statement by   *)
(* statement, and a harness thread that receives from and clears the       *)
(* output channel (DeviceController.uart_receiver).  The buffer of the     *)
(* receive channel is rxq; the Uart owns its Receiver, so only the CPU     *)
(* thread receives from it.  The buffer of the output channel is txq.  Of  *)
(* a Bus call only the calls on the channels are kept, and the registers   *)
(* that decide which of them a call makes are left open:                   *)
(*   read of the data register   avaliable(), then recv() if it held       *)
(*   clk                         avaliable(), then clear() if requested    *)
(*   write of the data register  avaliable() with the FIFOs disabled, then *)
(*                               if it did not hold loop_sender.send()     *)
(*                               with the loop bit set, sender.send() on   *)
(*                               the output channel with it clear          *)
(* avaliable, clear and send hold the mutex from their first statement to  *)
(* their return and are one step each, taken when the mutex is free; recv  *)
(* may wait and is taken statement by statement.  chan.at of the CPU       *)
(* thread is "idle", "rbr_recv", "thr_send" or "clk_clear" as above, or a  *)
(* position inside recv.  The histories chan.order and chan.got are not    *)
(* kept for the CPU thread.  Neither queue grows beyond MaxQueue values.   *)
(***************************************************************************)
InitBusChan == InitBus /\ build = "release" /\ args = << >> /\ cpu = 0

\* lock().unwrap() on a poisoned mutex panics
CpuPanics(c) == [chan EXCEPT !.at[c] = "panicked"]

\* Uart::read line 139: receiver.avaliable(); the read goes on to recv when it held
CpuAvaliable(c) ==
    /\ chan.at[c] = "idle"
    /\ chan.lock = "free"
    /\ chan' = IF chan.poisoned THEN CpuPanics(c)
               ELSE [chan EXCEPT !.at[c] = IF avaliable(rxq) THEN "rbr_recv"
                                                                  ELSE "idle"]
    /\ UNCHANGED rxq
    /\ ChanOnly

\* Receiver::recv: the mutex is taken, by lock() (line 51) or, after a wait, when
\* Condvar::wait returns (line 53), notified or not
CpuRecvLock(c) ==
    /\ chan.at[c] \in {"rbr_recv", "waiting", "woken"}
    /\ chan.lock = "free"
    /\ chan' = IF chan.poisoned THEN CpuPanics(c)
               ELSE [chan EXCEPT !.lock = c,
                                 !.at[c] = IF chan.at[c] = "rbr_recv" THEN "locked"
                                                                      ELSE "pop"]
    /\ UNCHANGED rxq
    /\ ChanOnly

\* Receiver::recv lines 52-53: an empty buffer makes the thread wait
CpuRecvCheck(c) ==
    /\ chan.at[c] = "locked"
    /\ chan' = IF rxq = << >>
               THEN [chan EXCEPT !.at[c] = "waiting", !.lock = "free"]
               ELSE [chan EXCEPT !.at[c] = "pop"]
    /\ UNCHANGED rxq
    /\ ChanOnly

\* Receiver::recv lines 55-56: pop_front().unwrap(), the guard is dropped and the
\* read returns
CpuRecvPop(c) ==
    /\ chan.at[c] = "pop"
    /\ IF rxq = << >>
       THEN /\ chan' = [chan EXCEPT !.at[c] = "panicked", !.lock = "free",
                                    !.poisoned = TRUE]
            /\ UNCHANGED rxq
       ELSE /\ chan' = [chan EXCEPT !.at[c] = "idle", !.lock = "free"]
            /\ rxq' = Tail(rxq)
    /\ ChanOnly

\* Uart::clk line 93: receiver.avaliable(); clk goes on to clear() when the
\* clear-receive request bit is set
CpuClkAvaliable(c) ==
    /\ chan.at[c] = "idle"
    /\ chan.lock = "free"
    /\ \E clears \in BOOLEAN :
          chan' = IF chan.poisoned THEN CpuPanics(c)
                  ELSE [chan EXCEPT !.at[c] = IF clears THEN "clk_clear" ELSE "idle"]
    /\ UNCHANGED rxq
    /\ ChanOnly

\* Uart::clk line 98: receiver.clear()
CpuClear(c) ==
    /\ chan.at[c] = "clk_clear"
    /\ chan.lock = "free"
    /\ IF chan.poisoned
       THEN chan' = CpuPanics(c) /\ UNCHANGED rxq
       ELSE chan' = [chan EXCEPT !.at[c] = "idle"] /\ rxq' = clear(rxq)
    /\ ChanOnly

\* Uart::write line 170, FIFOs disabled: receiver.avaliable(); the write goes on to
\* send when it did not hold
CpuWriteAvaliable(c) ==
    /\ chan.at[c] = "idle"
    /\ chan.lock = "free"
    /\ chan' = IF chan.poisoned THEN CpuPanics(c)
               ELSE [chan EXCEPT !.at[c] = IF avaliable(rxq) THEN "idle" ELSE "thr_send"]
    /\ UNCHANGED rxq
    /\ ChanOnly

\* Uart::write line 175: loop_sender.send(data as u8), after avaliable() or, with the
\* FIFOs enabled, as the write's only call; it pushes and notifies, and no thread
\* waits on this channel's condition variable but the CPU thread itself
CpuLoopSend(c) ==
    /\ chan.at[c] \in {"idle", "thr_send"}
    /\ chan.lock = "free"
    /\ Len(rxq) < MaxQueue
    /\ IF chan.poisoned
       THEN chan' = CpuPanics(c) /\ UNCHANGED rxq
       ELSE chan' = [chan EXCEPT !.at[c] = "idle"] /\ rxq' = send(rxq, 12)
    /\ ChanOnly

\* Uart::write line 177: sender.send(data as u8) on the output channel, after
\* avaliable() or, with the FIFOs enabled, as the write's only call; lock().unwrap()
\* panics on a poisoned mutex (channel.rs 33), else it pushes and notifies the harness
\* thread if that waits in recv
CpuOutSend(c) ==
    /\ chan.at[c] \in {"idle", "thr_send"}
    /\ Len(txq) < MaxQueue
    /\ IF chan.out_poisoned
       THEN chan' = CpuPanics(c) /\ UNCHANGED txq
       ELSE chan' = NotifyOut([chan EXCEPT !.at[c] = "idle"]) /\ txq' = send(txq, 12)
    /\ UNCHANGED <<plic, uart, rxq, mem, ysyx, count, build, panicked, op, ret, cpu,
                   pc, args, rets, touched, pendChanged, lastLevel>>

NextBusChan ==
    \/ \E t \in Senders : SendLock(t)
    \/ \E t \in Senders : SendPush(t)
    \/ \E t \in Senders : SendNotify(t)
    \/ \E t \in Senders : SendUnlock(t)
    \/ \E c \in Cpus : CpuAvaliable(c)
    \/ \E c \in Cpus : CpuRecvLock(c)
    \/ \E c \in Cpus : CpuRecvCheck(c)
    \/ \E c \in Cpus : CpuRecvPop(c)
    \/ \E c \in Cpus : CpuClkAvaliable(c)
    \/ \E c \in Cpus : CpuClear(c)
    \/ \E c \in Cpus : CpuWriteAvaliable(c)
    \/ \E c \in Cpus : CpuLoopSend(c)
    \/ \E c \in Cpus : CpuOutSend(c)
    \/ ExtRecv \/ ExtRecvWake \/ ExtClear

SpecBusChan == InitBusChan /\ [][NextBusChan]_vars

\* C12: every Bus call completes without waiting on a channel's condition variable:
\* the CPU thread is never waiting in recv and never ends a call in a panic, and when
\* it reaches the dequeue in recv the queue is non-empty.
C12_BusNeverWaits ==
    \A c \in Cpus :
        /\ chan.at[c] \notin {"waiting", "panicked"}
        /\ chan.at[c] = "pop" => rxq # << >>

\* what the code keeps of it: the CPU thread never waits, and dequeues from a non-empty
\* queue
C12_ReadNeverWaits ==
    \A c \in Cpus :
        /\ chan.at[c] # "waiting"
        /\ chan.at[c] = "pop" => rxq # << >>

(***************************************************************************)
(* SpecClk: Bus::clk called MaxClkCalls times by the CPU thread, on a Bus  *)
(* that is new or has the clear-receive request written to the UART's      *)
(* line-control register, while the harness thread receives from and       *)
(* clears the command channel (DeviceController.ysyx_receiver); pc counts  *)
(* the calls made.  At a call that drives the devices the host's event     *)
(* pump yields at most MaxHostEvents events.                               *)
(*                                                                         *)
(* A driven call takes a channel mutex in avaliable() (uart.rs 93), in     *)
(* clear() (uart.rs 98) when the request bit is set, and in send           *)
(* (ysyx.rs 95) once per Quit event, and is a step up to each of these     *)
(* calls after the first; the CPU thread then stands at "clk_clear" or     *)
(* "ysyx_send", and op = <<"enter", "busclk", events, rest, irqs>> holds   *)
(* the events polled, those after the Quit being sent, and the collector.  *)
(***************************************************************************)
MaxClkCalls == 2100
MaxHostEvents == 1

\* the limit the counter is compared with in Bus::clk
CLK_INTERVAL == 1000

HostEvents ==
    { <<"Quit">>, <<"KeyDown", "A">>, <<"KeyUp", "A">>, <<"KeyDown", "F13">>, <<"Other">> }
RECURSIVE HostEventSeqs(_)
HostEventSeqs(n) ==
    IF n = 0 THEN { << >> }
    ELSE HostEventSeqs(n - 1)
             \cup { Append(q, e) : q \in { x \in HostEventSeqs(n - 1) : Len(x) = n - 1 },
                                   e \in HostEvents }

HasQuit(events) == \E i \in 1 .. Len(events) : events[i][1] = "Quit"
FirstQuit(events) ==
    CHOOSE i \in 1 .. Len(events) :
        events[i][1] = "Quit" /\ \A j \in 1 .. (i - 1) : events[j][1] # "Quit"
\* the events before the first Quit, and those after it
UpToQuit(events) ==
    IF HasQuit(events) THEN SubSeq(events, 1, FirstQuit(events) - 1) ELSE events
AfterQuit(events) == SubSeq(events, FirstQuit(events) + 1, Len(events))

\* Bus::clk from inside Ysyx::clk, on the Ysyx state y, with the events still to take,
\* the collector irqs and the channel state c: up to the send of the next Quit event
\* or, with none left, through the loop that drains the collector into the PLIC
\* (lines 60-62) to the return
ClkYsyx(y, polled, events, irqs, c) ==
    /\ ysyx' = Ysyx_clk(y, UpToQuit(events))
    /\ IF HasQuit(events)
       THEN /\ chan' = [c EXCEPT !.at["cpu"] = "ysyx_send"]
            /\ op' = <<"enter", "busclk", polled, AfterQuit(events), irqs>>
            /\ ret' = Pending
            /\ UNCHANGED plic
       ELSE /\ chan' = [c EXCEPT !.at["cpu"] = "idle"]
            /\ op' = <<"busclk", TRUE, polled>>
            /\ ret' = Unit
            /\ plic' = ApplyIrqs(plic, irqs)
    /\ touched' = (touched \/ plic'.pending # plic.pending)
    /\ pendChanged' = (pendChanged \/ plic'.pending # plic.pending)

\* Bus::clk, up to the point where it returns or to its next call on a channel after
\* avaliable().  Memory::clk and Plic::clk are empty, Uart::clk appends its event and
\* Ysyx::clk none.  op records whether the devices were driven, and on what events.
BusClk ==
    /\ ~panicked
    /\ CpuIdle
    /\ IF count > CLK_INTERVAL
       THEN /\ count' = 0
            /\ IF clk_clears(uart)
               THEN /\ uart' = Uart_clk_ready(uart, rxq)
                    /\ chan' = [chan EXCEPT !.at["cpu"] = "clk_clear"]
                    /\ op' = <<"enter", "busclk">>
                    /\ ret' = Pending
                    /\ UNCHANGED <<plic, rxq, ysyx, touched, pendChanged>>
               ELSE \E r \in {Uart_clk(uart, rxq)}, events \in HostEventSeqs(MaxHostEvents) :
                       /\ uart' = r.uart
                       /\ rxq' = r.rx
                       /\ ClkYsyx(ysyx, events, events, r.irqs, chan)
       ELSE /\ count' = count + 1
            /\ op' = <<"busclk", FALSE>>
            /\ ret' = Unit
            /\ UNCHANGED <<plic, uart, rxq, ysyx, chan, touched, pendChanged>>
    /\ UNCHANGED <<txq, mem, build, cpu, panicked, lastLevel>>

\* Bus::clk from the call of clear (uart.rs 98) on
BusClkClear ==
    /\ ~panicked
    /\ chan.at["cpu"] = "clk_clear"
    /\ op[2] = "busclk"
    /\ \E r \in {Uart_clk_rest(uart, rxq)}, events \in HostEventSeqs(MaxHostEvents) :
          /\ uart' = r.uart
          /\ rxq' = r.rx
          /\ ClkYsyx(ysyx, events, events, r.irqs, chan)
    /\ UNCHANGED <<txq, mem, count, build, cpu, panicked, lastLevel>>

\* Bus::clk from the send of a Quit event's command (ysyx.rs 95) on; on a poisoned
\* mutex lock().unwrap() panics (channel.rs 33)
BusClkSend ==
    /\ ~panicked
    /\ chan.at["cpu"] = "ysyx_send"
    /\ IF chan.cmd_poisoned
       THEN /\ chan' = [chan EXCEPT !.at["cpu"] = "panicked"]
            /\ op' = <<"busclk", TRUE, op[3]>>
            /\ ret' = Panic
            /\ panicked' = TRUE
            /\ UNCHANGED <<plic, ysyx, touched, pendChanged>>
       ELSE /\ ClkYsyx([ysyx EXCEPT !.commands = send(@, "Poweroff")], op[3], op[4],
                       op[5], NotifyCmd(chan))
            /\ UNCHANGED panicked
    /\ UNCHANGED <<uart, rxq, txq, mem, count, build, cpu, lastLevel>>

\* the harness thread: Receiver::clear on DeviceController.ysyx_receiver
CmdClear ==
    /\ ~panicked
    /\ chan.at["h"] = "idle"
    /\ IF chan.cmd_poisoned
       THEN /\ chan' = [chan EXCEPT !.at["h"] = "panicked"]
            /\ HarnessDid(<<"clear", "panics">>, Unit)
            /\ UNCHANGED ysyx
       ELSE /\ ysyx' = [ysyx EXCEPT !.commands = clear(@)]
            /\ HarnessDid(<<"clear">>, Unit)
            /\ UNCHANGED chan
    /\ UNCHANGED <<plic, uart, rxq, txq, mem, count, build, cpu, panicked,
                   touched, pendChanged, lastLevel, pc, args, rets>>

\* the harness thread: Receiver::recv on DeviceController.ysyx_receiver, lines 51-56:
\* on a non-empty buffer it returns the oldest command, on an empty one it waits
CmdRecv ==
    /\ ~panicked
    /\ chan.at["h"] = "idle"
    /\ IF chan.cmd_poisoned
       THEN /\ chan' = [chan EXCEPT !.at["h"] = "panicked"]
            /\ HarnessDid(<<"recv", "panics">>, Unit)
            /\ UNCHANGED ysyx
       ELSE IF avaliable(ysyx.commands)
       THEN /\ ysyx' = [ysyx EXCEPT !.commands = Tail(@)]
            /\ HarnessDid(<<"recv">>, Ok(Head(ysyx.commands)))
            /\ UNCHANGED chan
       ELSE /\ chan' = [chan EXCEPT !.at["h"] = "cmd_waiting"]
            /\ HarnessDid(<<"recv", "waits">>, Pending)
            /\ UNCHANGED ysyx
    /\ UNCHANGED <<plic, uart, rxq, txq, mem, count, build, cpu, panicked,
                   touched, pendChanged, lastLevel, pc, args, rets>>

\* the rest of that recv, lines 53-56: Condvar::wait returns with the mutex, notified
\* or not, and pop_front().unwrap() returns the oldest command or, on an empty
\* buffer, panics with the mutex held, which poisons it
CmdRecvWake ==
    /\ ~panicked
    /\ chan.at["h"] \in {"cmd_waiting", "cmd_woken"}
    /\ IF chan.cmd_poisoned
       THEN /\ chan' = [chan EXCEPT !.at["h"] = "panicked"]
            /\ HarnessDid(<<"recv", "panics">>, Unit)
            /\ UNCHANGED ysyx
       ELSE IF avaliable(ysyx.commands)
       THEN /\ ysyx' = [ysyx EXCEPT !.commands = Tail(@)]
            /\ HarnessDid(<<"recv">>, Ok(Head(ysyx.commands)))
            /\ chan' = [chan EXCEPT !.at["h"] = "idle"]
       ELSE /\ chan' = [chan EXCEPT !.at["h"] = "panicked", !.cmd_poisoned = TRUE]
            /\ HarnessDid(<<"recv", "panics">>, Unit)
            /\ UNCHANGED ysyx
    /\ UNCHANGED <<plic, uart, rxq, txq, mem, count, build, cpu, panicked,
                   touched, pendChanged, lastLevel, pc, args, rets>>

InitClk ==
    /\ InitBusOther
    /\ plic = Plic_new
    /\ uart \in {Uart_new, [Uart_new EXCEPT !.lcr = UART_FCR_CLEAR_RCVR]}
    /\ build = "release"
    /\ args = << >>
    /\ cpu = 0

ClkCall ==
    /\ pc < MaxClkCalls
    /\ BusClk
    /\ pc' = pc + 1
    /\ UNCHANGED <<args, rets>>

ClkClear == BusClkClear /\ ScriptUnchanged

ClkSend == BusClkSend /\ ScriptUnchanged

NextClk == ClkCall \/ ClkClear \/ ClkSend \/ CmdRecv \/ CmdRecvWake \/ CmdClear

SpecClk == InitClk /\ [][NextClk]_vars

\* C13: the devices are driven on the clk calls number 1000, 2000, ... and on no other,
\* and a driven call leaves the counter at 0.
C13_ClockThrottle ==
    op[1] = "busclk" =>
        /\ op[2] <=> (pc % 1000 = 0)
        /\ op[2] => count = 0

\* a claim register read that returns a source
ClaimReturnsSource == op'[1] = "claim" /\ ret'.kind = "Ok" /\ ret'.val # 0

\* C14: claim(c) does not return a source that an earlier claim(c) returned and no
\* complete(c, s) has acknowledged since (the claimed bit of (c, s) is still set).
C14_ClaimExclusive ==
    [][ ClaimReturnsSource => ret'.val \notin plic.claimed[op'[2]] ]_vars

\* C15: when claim(c) returns a source s, afterwards the pending bit of s and of no
\* other source is cleared, the claimed bit of (c, s) and of no other pair is set, the
\* update flag is raised, and priorities, enables and thresholds are as before.
C15_ClaimEffect ==
    [][ ClaimReturnsSource =>
            LET s == ret'.val
                c == op'[2]
            IN /\ plic'.pending = plic.pending \ {s}
               /\ plic'.claimed = [plic.claimed EXCEPT ![c] = @ \cup {s}]
               /\ plic'.update
               /\ plic'.priorities = plic.priorities
               /\ plic'.enable = plic.enable
               /\ plic'.threshold = plic.threshold ]_vars

\* the sources eligible for a context: enabled, pending, not claimed by it and of a
\* priority above its threshold
EligibleSources(p, context) ==
    {s \in 1 .. (INTERRUPT_COUNT - 1) : Eligible(p, context, s)}

\* C16: claim(c) returns the eligible source of highest priority, the lowest source-id
\* among those of that priority, and 0 exactly when no source is eligible.
C16_Arbitration ==
    [][ (op'[1] = "claim" /\ ret'.kind = "Ok") =>
            LET E == EligibleSources(plic, op'[2])
                s == ret'.val
            IN IF E = {} THEN s = 0
               ELSE /\ s \in E
                    /\ \A t \in E :
                         \/ Get(plic.priorities, s) > Get(plic.priorities, t)
                         \/ Get(plic.priorities, s) = Get(plic.priorities, t) /\ s <= t
      ]_vars

\* the registers of a context as the register map documents them:
\* PLIC base + 0x200000 + 0x1000 * context, + 0 threshold, + 4 claim/complete
DocThresholdAddr(context) == AddrAdd(<<3072, 0>>, 2097152 + 4096 * context)
DocClaimAddr(context) == AddrAdd(<<3072, 0>>, 2097152 + 4096 * context + 4)

\* C17: for every context c, a 4-byte read at + 4 performs claim(c) and returns the
\* source claimed, a 4-byte write of s there performs complete(c, s), and a 4-byte
\* access at + 0 reads or writes the threshold of c.
C17_ClaimRegisterAddress ==
    [][ \A c \in Contexts :
          /\ op' = <<"read", DocClaimAddr(c), 4>> =>
                 /\ ret' = Ok(claim(plic, c).res)
                 /\ plic' = [claim(plic, c).plic EXCEPT !.update = TRUE]
          /\ \A s \in DecodeData :
                 op' = <<"write", DocClaimAddr(c), 4, s>> =>
                     ret' = Ok(0) /\ plic' = complete(plic, c, s)
          /\ op' = <<"read", DocThresholdAddr(c), 4>> =>
                 ret' = Ok(plic.threshold[c]) /\ plic' = plic
          /\ \A d \in DecodeData :
                 op' = <<"write", DocThresholdAddr(c), 4, d>> =>
                     ret' = Ok(0) /\ plic' = [plic EXCEPT !.threshold[c] = d]
      ]_vars

(***************************************************************************)
(* SpecPrio: the priority register of a source on a new PLIC.  The script  *)
(* is drawn at Init: source s and priority p.  Steps:                      *)
(*   0 write p at PLIC base + 4 * s   1 read it back                       *)
(*   2 write the enable bit of s for context 0   3 irq(s, true)            *)
(*   4 claim(0)                                                            *)
(***************************************************************************)
PrioSources == {1, 2, 3, 5, 8, 9, 30, 32, 33, 62}
PrioValues == {1, 2, 7}

\* the priority register of a source as the register map documents it
DocPriorityAddr(s) == AddrAdd(<<3072, 0>>, 4 * s)

InitPrio ==
    /\ InitBus
    /\ build = "release"
    /\ cpu = 0
    /\ \E s \in PrioSources, p \in PrioValues : args = [s |-> s, p |-> p]

PrioWrite ==
    /\ pc = 0
    /\ BusWrite(DocPriorityAddr(args.s), 4, args.p)
    /\ rets' = Append(rets, ret')
    /\ pc' = pc + 1
    /\ UNCHANGED args

PrioReadBack ==
    /\ pc = 1
    /\ BusRead(DocPriorityAddr(args.s), 4)
    /\ rets' = Append(rets, ret')
    /\ pc' = pc + 1
    /\ UNCHANGED args

PrioEnable ==
    /\ pc = 2
    /\ BusWrite(EnableAddr(0, args.s \div 32), 4, Pow2(args.s % 32))
    /\ pc' = pc + 1
    /\ UNCHANGED <<args, rets>>

PrioRaise ==
    /\ pc = 3
    /\ PlicIrq(args.s, TRUE)
    /\ pc' = pc + 1
    /\ UNCHANGED <<args, rets>>

PrioClaim ==
    /\ pc = 4
    /\ BusRead(ClaimAddr(0), 4)
    /\ rets' = Append(rets, ret')
    /\ pc' = pc + 1
    /\ UNCHANGED args

NextPrio == PrioWrite \/ PrioReadBack \/ PrioEnable \/ PrioRaise \/ PrioClaim

SpecPrio == InitPrio /\ [][NextPrio]_vars

\* C18: a 4-byte write of p at PLIC base + 4 * s sets the priority arbitration uses for
\* source s and for no other source, a 4-byte read there returns p, and s, enabled and
\* raised, is then claimed.
C18_PriorityRegister ==
    /\ Len(rets) >= 1 =>
          /\ rets[1] = Ok(0)
          /\ \A t \in 1 .. (INTERRUPT_COUNT - 1) :
                 Get(plic.priorities, t) = IF t = args.s THEN args.p ELSE 0
    /\ Len(rets) >= 2 => rets[2] = Ok(args.p)
    /\ Len(rets) >= 3 => rets[3] = Ok(args.s)

(***************************************************************************)
(* SpecIrq: the Irq collector on its own  (src/src/devices/mod.rs).  A     *)
(* step fills a new collector by 1 to MaxEvents calls of Irq::irq and      *)
(* drains it into the Plic with the loop of bus.rs 60-62.  It is not a     *)
(* call of Bus::clk: the counter and the devices are left alone, and in    *)
(* Bus::clk the collector holds one event, the Uart's (see BusClk).        *)
(***************************************************************************)
MaxEvents == 3

IrqSources == {1, 9}
IrqEvents == IrqSources \X BOOLEAN
IrqEventSeqs ==
    UNION { [1 .. n -> IrqEvents] : n \in 1 .. MaxEvents }

\* Irq::new
Irq_new == << >>
\* Irq::irq: push
Irq_irq(irqs, irq, enable) == Append(irqs, <<irq, enable>>)

\* the collector after the devices have appended evs, first to last
RECURSIVE Irq_collect(_, _)
Irq_collect(irqs, evs) ==
    IF evs = << >> THEN irqs
    ELSE Irq_collect(Irq_irq(irqs, Head(evs)[1], Head(evs)[2]), Tail(evs))

InitIrq == InitBus /\ build = "release" /\ args = << >> /\ cpu = 0

\* a collector that Irq::irq calls have filled with evs, drained into the Plic as the
\* loop of Bus::clk does it (lines 60-62): each event it yields goes to Plic::irq
IrqTick ==
    /\ ~panicked
    /\ \E evs \in IrqEventSeqs :
          /\ plic' = ApplyIrqs(plic, Irq_collect(Irq_new, evs))
          /\ op' = <<"tick", evs>>
    /\ ret' = Unit
    /\ touched' = (touched \/ plic'.pending # plic.pending)
    /\ pendChanged' = (pendChanged \/ plic'.pending # plic.pending)
    /\ UNCHANGED <<uart, rxq, txq, mem, ysyx, count, build, cpu, chan, panicked,
                   lastLevel, pc, args, rets>>

NextIrq == IrqTick

SpecIrq == InitIrq /\ [][NextIrq]_vars

\* the positions in evs of the events for source s
EventsFor(evs, s) == {i \in 1 .. Len(evs) : evs[i][1] = s}
\* the largest member of a non-empty set of numbers
Last(S) == CHOOSE i \in S : \A j \in S : j <= i

\* C19: after a tick, the pending bit of a source that had events appended during the
\* tick equals the level of the last appended of them.
C19_LastAppendedWins ==
    op[1] = "tick" =>
        \A s \in IrqSources :
            EventsFor(op[2], s) # {} =>
                ((s \in plic.pending) <=> op[2][Last(EventsFor(op[2], s))][2])

\* what the drain loop does: the first appended event of a source decides
C19_FirstAppendedWins ==
    op[1] = "tick" =>
        \A s \in IrqSources :
            EventsFor(op[2], s) # {} =>
                ((s \in plic.pending) <=>
                     op[2][CHOOSE i \in EventsFor(op[2], s) :
                               \A j \in EventsFor(op[2], s) : i <= j][2])

(***************************************************************************)
(* The UART interrupt line  (src/src/devices/uart.rs lines 107-122)        *)
(***************************************************************************)
\* the condition of the interrupt line on the registers u
LineCondition(u) ==
    \/ And8(u.ier, UART_IER_RDI) # 0 /\ And8(u.lsr, UART_LSR_DR) # 0
    \/ And8(u.ier, UART_IER_THRI) # 0 /\ And8(u.lsr, UART_LSR_TEMT) # 0

\* C20: the event a Uart::clk emits for source 1 is asserted exactly when, after the
\* status updates of that clk, receive interrupts are enabled and data is ready or
\* transmit interrupts are enabled and the transmitter is empty; otherwise it is
\* deasserted and the interrupt-identification register reads no-interrupt-pending.
\* (The statements of clk after the test change neither side of the condition.)
C20_InterruptLine ==
    [][op'[1] = "clk" =>
          /\ Len(ret'.val) = 1
          /\ ret'.val[1][1] = INTERRUPT_ID
          /\ ret'.val[1][2] <=> LineCondition(uart')
          /\ ~LineCondition(uart') => uart'.iir = UART_IIR_NO_INT]_vars

\* what Uart::clk does: the event is asserted exactly when the condition is false,
\* and the register reads no-interrupt-pending exactly when it is true
C20_InterruptLineInverted ==
    [][op'[1] = "clk" =>
          /\ Len(ret'.val) = 1
          /\ ret'.val[1][1] = INTERRUPT_ID
          /\ ret'.val[1][2] <=> ~LineCondition(uart')
          /\ uart'.iir = (IF LineCondition(uart') THEN UART_IIR_NO_INT ELSE 0)]_vars

(***************************************************************************)
(* SpecFifo: the UART's receive side.  The CPU thread writes the           *)
(* line-control and interrupt-enable registers, reads the data register    *)
(* and calls Uart::clk; the harness sends bytes on the receive channel.    *)
(* The receive queue does not grow beyond MaxQueue values.                 *)
(***************************************************************************)
FifoWriteInputs ==
    { <<UART_LCR, 0>>, <<UART_LCR, UART_FCR_CLEAR_RCVR>>,
      <<UART_IER_ILM, 0>>, <<UART_IER_ILM, UART_IER_RDI>> }

InitFifo == InitBus /\ build = "release" /\ args = << >> /\ cpu = 0

FifoWrite ==
    /\ \E i \in FifoWriteInputs : BusWrite(i[1], 1, i[2])
    /\ ScriptUnchanged

NextFifo == UartClk \/ UartClkClear \/ FifoWrite \/ UartRead \/ UartReadRecv \/ ExtSend

SpecFifo == InitFifo /\ [][NextFifo]_vars

\* C21: a Uart::clk run with the clear-receive request bit set leaves the receive queue
\* empty, the data-ready bit clear and the request bit clear, so that the next clk
\* does not clear again.
C21_ClearReceiveOneShot ==
    [][(op'[1] = "clk" /\ And8(uart.lcr, UART_FCR_CLEAR_RCVR) # 0) =>
          /\ rxq' = << >>
          /\ And8(uart'.lsr, UART_LSR_DR) = 0
          /\ And8(uart'.lcr, UART_FCR_CLEAR_RCVR) = 0]_vars

\* what Uart::clk does of it: the queue is emptied and data-ready cleared
C21_ClearReceiveEmpties ==
    [][(op'[1] = "clk" /\ And8(uart.lcr, UART_FCR_CLEAR_RCVR) # 0) =>
          /\ rxq' = << >>
          /\ And8(uart'.lsr, UART_LSR_DR) = 0
          /\ uart'.lcr = uart.lcr]_vars

\* a 1-byte write to the data register ends, made with divisor-latch access clear
DataWrite ==
    /\ op'[1] = "write" /\ op'[2] = UART_THR /\ op'[3] = 1
    /\ And8(uart.lcr, UART_LCR_DLAB) = 0

\* what such a write does to the line status and to the two queues
DataWriteEffect ==
    IF /\ And8(uart.fcr, UART_FCR_ENABLE_FIFO) = 0
       /\ chan.at["cpu"] # "thr_send"
    THEN /\ rxq # << >>
         /\ And8(uart'.lsr, UART_LSR_OE) # 0
         /\ rxq' = rxq
         /\ txq' = txq
    ELSE /\ And8(uart'.lsr, Or8(UART_LSR_TEMT, UART_LSR_THRE))
                = Or8(UART_LSR_TEMT, UART_LSR_THRE)
         /\ IF And8(uart.mcr, UART_MCR_LOOP) # 0
            THEN rxq' = Append(rxq, op'[4] % 256) /\ txq' = txq
            ELSE txq' = Append(txq, op'[4] % 256) /\ rxq' = rxq

\* C22: a data-register write outside divisor-latch access, made with the FIFOs disabled
\* and a received byte found waiting, sets overrun-error and changes neither the output
\* channel nor the receive queue; any other sets TEMT and THRE and appends its byte to
\* the receive queue when the loop bit is set, to the output channel when it is clear,
\* and leaves the other queue as it is.  A write is past its test of the receive queue
\* only when the FIFOs are disabled and it found no byte.
C22_DataWrite ==
    [][/\ DataWrite => DataWriteEffect
       /\ (chan.at["cpu"] = "idle" /\ chan'.at["cpu"] = "thr_send") =>
              (And8(uart.fcr, UART_FCR_ENABLE_FIFO) = 0 /\ rxq = << >>)]_vars

\* what the code keeps of it: the writes that return do so; a write that ends in a
\* panic has set TEMT and THRE and delivered its byte nowhere
C22_ReturningDataWrite ==
    [][DataWrite =>
          IF ret'.kind = "Ok" THEN DataWriteEffect
          ELSE /\ ret' = Panic
               /\ chan.out_poisoned
               /\ And8(uart.mcr, UART_MCR_LOOP) = 0
               /\ And8(uart'.lsr, Or8(UART_LSR_TEMT, UART_LSR_THRE))
                      = Or8(UART_LSR_TEMT, UART_LSR_THRE)
               /\ rxq' = rxq /\ txq' = txq]_vars

(***************************************************************************)
(* SpecChanFair: SpecChan under fair scheduling of the threads.  Every     *)
(* thread that can take a step of its call eventually takes one; a         *)
(* spurious return of Condvar::wait may happen but need not.               *)
(***************************************************************************)
SenderStep(t) == SendLock(t) \/ SendPush(t) \/ SendNotify(t) \/ SendUnlock(t)
ReceiverStep(r) == RecvLock(r) \/ RecvCheck(r) \/ RecvReacquire(r) \/ RecvPop(r)

ChanFairness ==
    /\ \A t \in Senders : WF_vars(SenderStep(t))
    /\ \A r \in Receivers : WF_vars(ReceiverStep(r))

SpecChanFair == InitChan /\ [][NextChan]_vars /\ ChanFairness

\* C23: every send completes, whatever the receiver does: none ends in a panic and one
\* that has taken the mutex returns; a receiver never holds the mutex while it waits;
\* and a receiver blocked in recv (waiting on the condition variable, or woken and not
\* yet returned) while a sent value is in the buffer eventually returns from recv.
C23_WakeUp ==
    /\ [](\A t \in Senders : chan.at[t] # "panicked")
    /\ \A t \in Senders : (chan.at[t] = "locked") ~> (chan.at[t] = "idle")
    /\ [](\A r \in Receivers : chan.at[r] = "waiting" => chan.lock # r)
    /\ \A r \in Receivers :
          (chan.at[r] \in {"waiting", "woken"} /\ rxq # << >>) ~> (chan.at[r] = "idle")

\* what the code keeps of it: no wake-up is lost.  A receiver never holds the mutex
\* while it waits, and one blocked in recv while a sent value is in the buffer
\* eventually returns from recv.
C23_NoLostWakeUp ==
    /\ [](\A r \in Receivers : chan.at[r] = "waiting" => chan.lock # r)
    /\ \A r \in Receivers :
          (chan.at[r] \in {"waiting", "woken"} /\ rxq # << >>) ~> (chan.at[r] = "idle")

\* the sources 1 .. 63
Sources == 1 .. (INTERRUPT_COUNT - 1)

\* C24: a claim(c) that returns 0 leaves the pending bitmap and the claimed bit of every
\* source 1 .. 63 as they were; and a claim(c) made when no source is claimed by c, an
\* earlier claim(c) that returned 0 notwithstanding, returns a source whenever one is
\* pending, enabled for c and above c's threshold.
C24_EmptyClaimHarmless ==
    [][ /\ (op'[1] = "claim" /\ ret' = Ok(0)) =>
              /\ plic'.pending = plic.pending
              /\ \A c \in Contexts :
                    plic'.claimed[c] \cap Sources = plic.claimed[c] \cap Sources
        /\ (/\ op'[1] = "claim" /\ ret'.kind = "Ok"
            /\ plic.claimed[op'[2]] \cap Sources = {}
            /\ EligibleSources(plic, op'[2]) # {}) => ret'.val # 0 ]_vars

\* what the code keeps of it: the bitmaps of the sources 1 .. 63 are as they were
C24_EmptyClaimFrame ==
    [][ (op'[1] = "claim" /\ ret' = Ok(0)) =>
              /\ plic'.pending = plic.pending
              /\ \A c \in Contexts :
                    plic'.claimed[c] \cap Sources = plic.claimed[c] \cap Sources ]_vars

\* C25: right after a Uart::clk the data-ready bit of the line status is set exactly
\* when the receive queue is non-empty; so once reads have drained the queue, the
\* condition of the receive-data interrupt (receive interrupt enabled and data-ready)
\* is false after the next clk.
C25_DataReadyTracksQueue ==
    op[1] = "clk" =>
        /\ (And8(uart.lsr, UART_LSR_DR) # 0) <=> (rxq # << >>)
        /\ rxq = << >> =>
              ~(And8(uart.ier, UART_IER_RDI) # 0 /\ And8(uart.lsr, UART_LSR_DR) # 0)

\* what Uart::clk does of it: a non-empty queue sets data-ready
C25_NonEmptySetsDataReady ==
    op[1] = "clk" => (rxq # << >> => And8(uart.lsr, UART_LSR_DR) # 0)

\* C26: whenever the update flag is clear, the level interrupt() last returned as
\* Some(level) (not asserted before the first) is whether some source is eligible for
\* context 0.
C26_LevelNeverStale ==
    ~plic.update => (lastLevel <=> EligibleSources(plic, 0) # {})

\* what holds of the flag: an irq that changes a pending bit leaves it set
C26_IrqRaisesUpdate ==
    [][(op'[1] = "irq" /\ plic'.pending # plic.pending) => plic'.update]_vars

====
